---------------------------- MODULE Spec2Model ----------------------------
(***************************************************************************)
(* Extended Flashcards: the canvas editor (MainLayout handlers) and the    *)
(* arrow routing of CanvasUtils (edge selection, edge connection points,   *)
(* orthogonal path with minimum travel) as drawn by FlashcardCanvas.       *)
(*                                                                         *)
(* JavaScript numbers are binary floating point.  The model keeps the      *)
(* same arithmetic (sign, significand, binary exponent, every operation    *)
(* rounded to nearest, ties to even) with a significand of Precision bits  *)
(* instead of 53, so that every intermediate value fits TLC's integers.    *)
(* A Number is [m |-> significand, e |-> exponent], value m * 2^e, kept    *)
(* canonical (m odd, or m = 0 and e = 0).                                  *)
(***************************************************************************)
EXTENDS Integers, Sequences, FiniteSets, TLC

\* ------------------------------------------------------------------ bounds
Precision == 11       \* significand bits of a model Number
MaxSides  == 3        \* sides on the flashcard
MaxArrows == 3        \* arrows on the flashcard
MaxIds    == 4        \* ids generateId hands out in one run
MaxPan    == 60       \* how far the view is dragged from the origin
MaxServiceCalls == 3  \* calls of the file service in one run
MaxSaveCalls == 2     \* saves and opens of MainLayout in one run
MaxEdits  == 3        \* edits and new sets in one run
MaxSnapped == 2       \* sides on the canvas with grid snapping

\* --------------------------------------------------------- Number (binary)
Abs(n)  == IF n < 0 THEN -n ELSE n
Sign(n) == IF n > 0 THEN 1 ELSE IF n < 0 THEN -1 ELSE 0

\* number of binary digits of n >= 0 (n < 2^31)
BitLen(n) ==
  IF n < 65536
  THEN IF n < 256
       THEN IF n < 16
            THEN IF n < 4 THEN (IF n < 2 THEN n ELSE 2)
                 ELSE (IF n < 8 THEN 3 ELSE 4)
            ELSE IF n < 64 THEN (IF n < 32 THEN 5 ELSE 6)
                 ELSE (IF n < 128 THEN 7 ELSE 8)
       ELSE IF n < 4096
            THEN IF n < 1024 THEN (IF n < 512 THEN 9 ELSE 10)
                 ELSE (IF n < 2048 THEN 11 ELSE 12)
            ELSE IF n < 16384 THEN (IF n < 8192 THEN 13 ELSE 14)
                 ELSE (IF n < 32768 THEN 15 ELSE 16)
  ELSE IF n < 16777216
       THEN IF n < 1048576
            THEN IF n < 262144 THEN (IF n < 131072 THEN 17 ELSE 18)
                 ELSE (IF n < 524288 THEN 19 ELSE 20)
            ELSE IF n < 4194304 THEN (IF n < 2097152 THEN 21 ELSE 22)
                 ELSE (IF n < 8388608 THEN 23 ELSE 24)
       ELSE IF n < 268435456
            THEN IF n < 67108864 THEN (IF n < 33554432 THEN 25 ELSE 26)
                 ELSE (IF n < 134217728 THEN 27 ELSE 28)
            ELSE IF n < 1073741824 THEN (IF n < 536870912 THEN 29 ELSE 30)
                 ELSE 31

\* canonical form: trailing zero digits of the significand go to the exponent
Strip(a, k) ==
  IF a.m % (2 ^ k) = 0 THEN [m |-> a.m \div (2 ^ k), e |-> a.e + k] ELSE a

Norm(m, e) ==
  IF m = 0 THEN [m |-> 0, e |-> 0]
  ELSE Strip(Strip(Strip(Strip(Strip([m |-> m, e |-> e], 16), 8), 4), 2), 1)

\* the Number nearest to m * 2^e, ties to the even significand
\* q: the digits kept, r: the digits dropped, half: half a unit of the last
\* digit kept
RoundPick(m, e, sh, q, r, half) ==
  Norm(Sign(m) * (IF r > half \/ (r = half /\ q % 2 = 1) THEN q + 1 ELSE q),
       e + sh)

\* a = |m| has n digits
RoundDigits(m, e, a, n) ==
  IF n <= Precision THEN Norm(m, e)
  ELSE RoundPick(m, e, n - Precision, a \div (2 ^ (n - Precision)),
                 a % (2 ^ (n - Precision)), 2 ^ (n - Precision - 1))

Round(m, e) == RoundDigits(m, e, Abs(m), BitLen(Abs(m)))

Num(n) == Round(n, 0)
Neg(a) == [m |-> -a.m, e |-> a.e]

\* a + b: exact sum rounded once; an addend below the last place only
\* decides the rounding direction (sticky)
\* a.e >= b.e; d = a.e - b.e, n: the digits of a.m
AddAligned(a, b, d, n) ==
  IF n + d <= 29
  THEN Round(a.m * (2 ^ d) + b.m, b.e)
  ELSE Round(a.m * (2 ^ (Precision + 2 - n)) + Sign(b.m),
             a.e - (Precision + 2 - n))

AddOrdered(a, b) == AddAligned(a, b, a.e - b.e, BitLen(Abs(a.m)))

Add(a, b) ==
  IF a.m = 0 THEN b
  ELSE IF b.m = 0 THEN a
  ELSE IF a.e >= b.e THEN AddOrdered(a, b) ELSE AddOrdered(b, a)

Sub(a, b) == Add(a, Neg(b))
Mul(a, b) == Round(a.m * b.m, a.e + b.e)

\* num = |a.m| * 2^k over bm = |b.m|: quotient with a sticky last digit
DivScaled(a, b, k, num, bm) ==
  Round(Sign(a.m) * Sign(b.m)
          * (2 * (num \div bm) + (IF num % bm = 0 THEN 0 ELSE 1)),
        a.e - b.e - k - 1)

DivBy(a, b, k) == DivScaled(a, b, k, Abs(a.m) * (2 ^ k), Abs(b.m))

Div(a, b) ==
  IF a.m = 0 THEN [m |-> 0, e |-> 0]
  ELSE DivBy(a, b, (Precision - BitLen(Abs(a.m))) + Precision + 2)

RECURSIVE ISqrtIter(_, _, _)
ISqrtIter(n, r, b) ==
  IF b = 0 THEN r
  ELSE IF (r + b) * (r + b) <= n THEN ISqrtIter(n, r + b, b \div 2)
  ELSE ISqrtIter(n, r, b \div 2)

ISqrt(n) == ISqrtIter(n, 0, 2 ^ 14)

\* r: the integer root of mm = a.m * 2^k, a sticky last digit added
SqrtRoot(a, k, mm, r) ==
  Round(2 * r + (IF r * r = mm THEN 0 ELSE 1), ((a.e - k) \div 2) - 1)

SqrtScaled(a, k) == SqrtRoot(a, k, a.m * (2 ^ k), ISqrt(a.m * (2 ^ k)))

SqrtEven(a, k0) ==
  SqrtScaled(a, IF (a.e - k0) % 2 = 0 THEN k0 ELSE k0 + 1)

\* Math.sqrt of a non-negative Number
Sqrt(a) ==
  IF a.m = 0 THEN [m |-> 0, e |-> 0]
  ELSE SqrtEven(a, 2 * Precision + 2 - BitLen(a.m))

\* sign of a - b, exact
\* a and b of one sign, not zero; ta, tb: the places of their first digits
CmpPlaces(a, b, ta, tb) ==
  IF ta # tb THEN Sign(a.m) * Sign(ta - tb)
  ELSE IF a.e >= b.e THEN Sign(a.m * (2 ^ (a.e - b.e)) - b.m)
  ELSE Sign(a.m - b.m * (2 ^ (b.e - a.e)))

Cmp(a, b) ==
  IF Sign(a.m) # Sign(b.m) THEN Sign(Sign(a.m) - Sign(b.m))
  ELSE IF a.m = 0 THEN 0
  ELSE CmpPlaces(a, b, a.e + BitLen(Abs(a.m)), b.e + BitLen(Abs(b.m)))

Lt(a, b) == Cmp(a, b) < 0
Le(a, b) == Cmp(a, b) <= 0
Gt(a, b) == Cmp(a, b) > 0
Ge(a, b) == Cmp(a, b) >= 0
NumAbs(a) == [m |-> Abs(a.m), e |-> a.e]
NumMax(a, b) == IF Lt(a, b) THEN b ELSE a      \* Math.max
NumMin(a, b) == IF Lt(b, a) THEN b ELSE a      \* Math.min

Zero     == Num(0)
Two      == Num(2)
Infinity == [m |-> 1, e |-> 100000]

\* ------------------------------------------------------------- CanvasUtils
Edges == {"top", "bottom", "left", "right"}

\* side.width || 100, side.height || 60 (0 stands for an absent field)
WidthOf(side)  == IF side.width = 0 THEN Num(100) ELSE Num(side.width)
HeightOf(side) == IF side.height = 0 THEN Num(60) ELSE Num(side.height)

getSideCenter(side) ==
  [x |-> Add(Num(side.position.x), Div(WidthOf(side), Two)),
   y |-> Add(Num(side.position.y), Div(HeightOf(side), Two))]

\* intersect >= position && intersect <= position + extent
inRange(intersect, position, extent) ==
  Ge(intersect, position) /\ Le(intersect, Add(position, extent))

\* the distance written for an edge the vector reaches: center and along,
\* the centre and the vector's travel (dy * t, dx * t) along the edge;
\* position, extent: the range of the edge; half: from the centre to the edge
edgeDistance(center, along, position, extent, half) ==
  IF inRange(Add(center, along), position, extent)
  THEN Sqrt(Add(Mul(half, half), Mul(along, along)))
  ELSE Infinity

\* edges.right, edges.left, edges.bottom, edges.top (.distance)
edgeDistances(fromSide, fromCenter, dx, dy) ==
  << IF Gt(dx, Zero)
     THEN edgeDistance(fromCenter.y,
                       Mul(dy, Div(Div(WidthOf(fromSide), Two), dx)),
                       Num(fromSide.position.y), HeightOf(fromSide),
                       Div(WidthOf(fromSide), Two))
     ELSE Infinity,
     IF Lt(dx, Zero)
     THEN edgeDistance(fromCenter.y,
                       Mul(dy, Div(Div(Neg(WidthOf(fromSide)), Two), dx)),
                       Num(fromSide.position.y), HeightOf(fromSide),
                       Div(WidthOf(fromSide), Two))
     ELSE Infinity,
     IF Gt(dy, Zero)
     THEN edgeDistance(fromCenter.x,
                       Mul(dx, Div(Div(HeightOf(fromSide), Two), dy)),
                       Num(fromSide.position.x), WidthOf(fromSide),
                       Div(HeightOf(fromSide), Two))
     ELSE Infinity,
     IF Lt(dy, Zero)
     THEN edgeDistance(fromCenter.x,
                       Mul(dx, Div(Div(Neg(HeightOf(fromSide)), Two), dy)),
                       Num(fromSide.position.x), WidthOf(fromSide),
                       Div(HeightOf(fromSide), Two))
     ELSE Infinity >>

\* mutant: the distances are attributed to the wrong edges
EdgeOrder_mislabelled == <<"bottom", "top", "right", "left">>

\* Object.values(edges): the order the edges are visited in
EdgeOrder == <<"right", "left", "bottom", "top">>

\* forEach from edge i on: if (distance < minDistance) this edge is closest
RECURSIVE closestEdgeFrom(_, _, _, _)
closestEdgeFrom(distances, i, closestEdge, minDistance) ==
  IF i > Len(EdgeOrder) THEN closestEdge
  ELSE IF Lt(distances[i], minDistance)
       THEN closestEdgeFrom(distances, i + 1, EdgeOrder[i], distances[i])
       ELSE closestEdgeFrom(distances, i + 1, closestEdge, minDistance)

edgeFromCenters(fromSide, fromCenter, toCenter) ==
  closestEdgeFrom(edgeDistances(fromSide, fromCenter,
                                Sub(toCenter.x, fromCenter.x),
                                Sub(toCenter.y, fromCenter.y)),
                  1, "right", Infinity)

determineEdgeFromVector(fromSide, toSide) ==
  edgeFromCenters(fromSide, getSideCenter(fromSide), getSideCenter(toSide))

\* sides.find(s => s.id === id): index of the first match, 0 when undefined
FindSide(ss, id) ==
  IF \E i \in 1..Len(ss) : ss[i].id = id
  THEN CHOOSE i \in 1..Len(ss) :
         ss[i].id = id /\ \A j \in 1..(i - 1) : ss[j].id # id
  ELSE 0

\* totalArrows > 1 ? arrowIndex / (totalArrows - 1) : 0.5
distributionOf(arrowIndex, totalArrows) ==
  IF totalArrows > 1 THEN Div(Num(arrowIndex), Num(totalArrows - 1))
  ELSE Div(Num(1), Two)

\* mutant: the whole edge is used, corners included
adjustedDistributionOf_wholeEdge(distribution) == distribution

\* 0.1 + (distribution * 0.8)
adjustedDistributionOf(distribution) ==
  Add(Div(Num(1), Num(10)), Mul(distribution, Div(Num(4), Num(5))))

\* mutant: bottom and right edges are filled from the low end like top and left
getArrowEdgePoint_unreversed(side, edge, arrowIndex, totalArrows) ==
  LET adjustedDistribution ==
        adjustedDistributionOf(distributionOf(arrowIndex, totalArrows))
  IN IF edge \in {"top", "bottom"}
     THEN [x |-> Add(Num(side.position.x), Mul(WidthOf(side), adjustedDistribution)),
           y |-> IF edge = "top" THEN Num(side.position.y)
                 ELSE Add(Num(side.position.y), HeightOf(side))]
     ELSE [x |-> IF edge = "left" THEN Num(side.position.x)
                 ELSE Add(Num(side.position.x), WidthOf(side)),
           y |-> Add(Num(side.position.y), Mul(HeightOf(side), adjustedDistribution))]

\* switch (edge): the point at adjustedDistribution of the edge
edgePointAt(side, edge, adjustedDistribution) ==
  CASE edge = "top" ->
         [x |-> Add(Num(side.position.x),
                    Mul(WidthOf(side), adjustedDistribution)),
          y |-> Num(side.position.y)]
    [] edge = "bottom" ->
         [x |-> Add(Num(side.position.x),
                    Mul(WidthOf(side), Sub(Num(1), adjustedDistribution))),
          y |-> Add(Num(side.position.y), HeightOf(side))]
    [] edge = "left" ->
         [x |-> Num(side.position.x),
          y |-> Add(Num(side.position.y),
                    Mul(HeightOf(side), adjustedDistribution))]
    [] edge = "right" ->
         [x |-> Add(Num(side.position.x), WidthOf(side)),
          y |-> Add(Num(side.position.y),
                    Mul(HeightOf(side), Sub(Num(1), adjustedDistribution)))]
    [] OTHER -> getSideCenter(side)

getArrowEdgePoint(side, edge, arrowIndex, totalArrows) ==
  edgePointAt(side, edge,
              adjustedDistributionOf(distributionOf(arrowIndex, totalArrows)))

\* the filter of getSideEdgeConnectionPoint
\* mutant: only the connectors that leave the side are collected
usesEdge_outboundOnly(arrow, side, edge, ss) ==
  LET si == FindSide(ss, arrow.sourceId)
      di == FindSide(ss, arrow.destinationId)
  IN IF si = 0 \/ di = 0 THEN FALSE
     ELSE IF ss[si].id = side.id
          THEN determineEdgeFromVector(ss[si], ss[di]) = edge
     ELSE FALSE

\* si, di: where sides.find finds the arrow's source and destination
usesEdgeOf(side, edge, ss, si, di) ==
  IF si = 0 \/ di = 0 THEN FALSE
  ELSE IF ss[si].id = side.id
       THEN determineEdgeFromVector(ss[si], ss[di]) = edge
  ELSE IF ss[di].id = side.id
       THEN determineEdgeFromVector(ss[di], ss[si]) = edge
  ELSE FALSE

usesEdge(arrow, side, edge, ss) ==
  usesEdgeOf(side, edge, ss, FindSide(ss, arrow.sourceId),
             FindSide(ss, arrow.destinationId))

\* the comparator of getSideEdgeConnectionPoint: sign of the returned number
\* aOtherSide, bOtherSide: where sides.find finds the side at the other end
otherSideIndex(a, side, ss) ==
  IF a.sourceId = side.id THEN FindSide(ss, a.destinationId)
  ELSE FindSide(ss, a.sourceId)

\* if (Math.abs(diff) > 5) return diff; else the difference of the absolute
\* values of the other coordinate
compareByDiff(diff, aOther, bOther) ==
  IF Gt(NumAbs(diff), Num(5)) THEN Sign(diff.m)
  ELSE Sign(Sub(NumAbs(aOther), NumAbs(bOther)).m)

compareCenters(aCenter, bCenter, edge) ==
  IF edge \in {"top", "bottom"}
  THEN compareByDiff(Sub(bCenter.x, aCenter.x), aCenter.y, bCenter.y)
  ELSE compareByDiff(Sub(bCenter.y, aCenter.y), aCenter.x, bCenter.x)

compareOtherSides(ai, bi, edge, ss) ==
  IF ai = 0 \/ bi = 0 THEN 0
  ELSE compareCenters(getSideCenter(ss[ai]), getSideCenter(ss[bi]), edge)

compareEdgeArrows(a, b, side, edge, ss) ==
  compareOtherSides(otherSideIndex(a, side, ss), otherSideIndex(b, side, ss),
                    edge, ss)

\* Array.prototype.sort: stable, an element moves in front of those the
\* comparator puts after it.  (The centres of the sides of Files and
\* Positions differ by 0 or by more than 5, so the comparator is a consistent
\* order there and every stable sort gives this result.)
RECURSIVE insertSorted(_, _, _, _, _)
insertSorted(sorted, a, side, edge, ss) ==
  IF sorted = <<>> THEN <<a>>
  ELSE IF compareEdgeArrows(sorted[Len(sorted)], a, side, edge, ss) > 0
       THEN Append(insertSorted(SubSeq(sorted, 1, Len(sorted) - 1),
                                a, side, edge, ss),
                   sorted[Len(sorted)])
       ELSE Append(sorted, a)

RECURSIVE sortEdgeArrows(_, _, _, _)
sortEdgeArrows(list, side, edge, ss) ==
  IF list = <<>> THEN <<>>
  ELSE insertSorted(sortEdgeArrows(SubSeq(list, 1, Len(list) - 1),
                                   side, edge, ss),
                    list[Len(list)], side, edge, ss)

edgeArrowsOf(side, edge, allArrows, ss) ==
  SelectSeq(allArrows, LAMBDA arrow : usesEdge(arrow, side, edge, ss))

\* findIndex(a => a.id === id), 0-based, -1 when absent
findArrowIndex(list, id) ==
  IF \E i \in 1..Len(list) : list[i].id = id
  THEN (CHOOSE i \in 1..Len(list) :
          list[i].id = id /\ \A j \in 1..(i - 1) : list[j].id # id) - 1
  ELSE -1

\* mutant: the connection point is the centre of the side
getSideEdgeConnectionPoint_center(side, edge, currentArrow, allArrows, ss) ==
  getSideCenter(side)

\* arrowIndex = findIndex, totalArrows = length of the sorted list
pointAmong(side, edge, currentArrow, sortedEdgeArrows) ==
  getArrowEdgePoint(side, edge,
                    findArrowIndex(sortedEdgeArrows, currentArrow.id),
                    Len(sortedEdgeArrows))

getSideEdgeConnectionPoint(side, edge, currentArrow, allArrows, ss) ==
  pointAmong(side, edge, currentArrow,
             sortEdgeArrows(edgeArrowsOf(side, edge, allArrows, ss),
                            side, edge, ss))

\* mutant: the floor of the first segment is 20 instead of 40
minTravelOf_floor20(distance) ==
  NumMax(Mul(distance, Div(Num(1), Num(5))), Num(20))

\* const minTravel = Math.max(distance * 0.2, 40)
minTravelOf(distance) ==
  NumMax(Mul(distance, Div(Num(1), Num(5))), Num(40))

\* Math.sqrt(dx * dx + dy * dy)
distanceOf(dx, dy) == Sqrt(Add(Mul(dx, dx), Mul(dy, dy)))

\* mutant: the first corner lies minTravel inward from the source edge
firstCornerOf_inward(sourcePoint, sourceEdge, minTravel) ==
  CASE sourceEdge = "right" ->
         [x |-> Add(sourcePoint.x, Neg(minTravel)), y |-> sourcePoint.y]
    [] sourceEdge = "left" ->
         [x |-> Add(sourcePoint.x, minTravel), y |-> sourcePoint.y]
    [] sourceEdge = "bottom" ->
         [x |-> sourcePoint.x, y |-> Add(sourcePoint.y, Neg(minTravel))]
    [] OTHER ->
         [x |-> sourcePoint.x, y |-> Add(sourcePoint.y, minTravel)]

\* firstCorner: minTravel away from sourcePoint, outward from sourceEdge
firstCornerOf(sourcePoint, sourceEdge, minTravel) ==
  CASE sourceEdge = "right" ->
         [x |-> Add(sourcePoint.x, minTravel), y |-> sourcePoint.y]
    [] sourceEdge = "left" ->
         [x |-> Add(sourcePoint.x, Neg(minTravel)), y |-> sourcePoint.y]
    [] sourceEdge = "bottom" ->
         [x |-> sourcePoint.x, y |-> Add(sourcePoint.y, minTravel)]
    [] OTHER ->
         [x |-> sourcePoint.x, y |-> Add(sourcePoint.y, Neg(minTravel))]

\* mutant: the second corner is the destination point itself
secondCornerOf_destination(firstCorner, destPoint, sourceEdge) == destPoint

\* secondCorner: firstCorner's travelled coordinate, destPoint's other one
secondCornerOf(firstCorner, destPoint, sourceEdge) ==
  IF sourceEdge \in {"left", "right"}
  THEN [x |-> firstCorner.x, y |-> destPoint.y]
  ELSE [x |-> destPoint.x, y |-> firstCorner.y]

\* return [sourcePoint, firstCorner, secondCorner, destPoint]
pathThrough(sourcePoint, firstCorner, destPoint, sourceEdge) ==
  <<sourcePoint, firstCorner,
    secondCornerOf(firstCorner, destPoint, sourceEdge), destPoint>>

calculateArrowPathWithTravel(sourcePoint, destPoint, sourceEdge) ==
  pathThrough(sourcePoint,
              firstCornerOf(sourcePoint, sourceEdge,
                            minTravelOf(distanceOf(
                              Sub(destPoint.x, sourcePoint.x),
                              Sub(destPoint.y, sourcePoint.y)))),
              destPoint, sourceEdge)

\* mutant: only the source side is looked up before the sides are used
calculateAdvancedArrowPath_sourceOnly(arrow, allArrows, ss) ==
  LET si == FindSide(ss, arrow.sourceId)
      d0 == FindSide(ss, arrow.destinationId)
      di == IF d0 = 0 THEN si ELSE d0
  IN IF si = 0 THEN <<>>
     ELSE LET sourceEdge == determineEdgeFromVector(ss[si], ss[di])
              destEdge   == determineEdgeFromVector(ss[di], ss[si])
          IN calculateArrowPathWithTravel(
               getSideEdgeConnectionPoint(ss[si], sourceEdge, arrow, allArrows, ss),
               getSideEdgeConnectionPoint(ss[di], destEdge, arrow, allArrows, ss),
               sourceEdge)

\* the connection points on the two edges, and the path between them
pathOnEdges(arrow, allArrows, ss, sourceSide, destSide, sourceEdge, destEdge) ==
  calculateArrowPathWithTravel(
    getSideEdgeConnectionPoint(sourceSide, sourceEdge, arrow, allArrows, ss),
    getSideEdgeConnectionPoint(destSide, destEdge, arrow, allArrows, ss),
    sourceEdge)

\* the edge the arrow leaves by and the edge it enters by
pathBetween(arrow, allArrows, ss, sourceSide, destSide) ==
  pathOnEdges(arrow, allArrows, ss, sourceSide, destSide,
              determineEdgeFromVector(sourceSide, destSide),
              determineEdgeFromVector(destSide, sourceSide))

calculateAdvancedArrowPath(arrow, allArrows, ss) ==
  IF FindSide(ss, arrow.sourceId) = 0 \/ FindSide(ss, arrow.destinationId) = 0
  THEN <<>>
  ELSE pathBetween(arrow, allArrows, ss, ss[FindSide(ss, arrow.sourceId)],
                   ss[FindSide(ss, arrow.destinationId)])

\* ------------------------------------------------------------------- state
VARIABLES
  sides,       \* appState.currentFlashcard.sides
  arrows,      \* appState.currentFlashcard.arrows
  idCounter,   \* ids handed out so far by generateId (each id is new)
  canvasState, \* state of the canvas context: view, selection, arrow creation
  call,        \* a direct call of a CanvasUtils function: arguments, result
  selectedTool,         \* appState.selectedTool
  newArrowForEditing,   \* MainLayout's newArrowForEditing (0: null)
  currentSet,           \* appState.currentSet with currentFlashcard (NoSet: null)
  currentFilePath,      \* MainLayout's currentFilePath (0: null)
  isSaving,             \* MainLayout's isSaving
  saveError,            \* MainLayout's saveError ("": null)
  hasUnsavedChanges,    \* MainLayout's hasUnsavedChanges
  lastSavedState,       \* MainLayout's lastSavedState (NoSet: null)
  autoSaveTimeoutRef,   \* the timer autoSaveTimeoutRef holds, with its closure
  effectDue,            \* checkForUnsavedChanges changed: its effect is to run
  disk,                 \* the files: what each path holds
  recentFiles,          \* localStorage's recent-files list
  inFlight,             \* service calls that await the dialog or the disk
  returned,             \* what the last open call returned or threw
  serviceCalls,         \* how many service calls were made
  isDragging,           \* FlashcardCanvas's isDragging
  dragSideId,           \* FlashcardCanvas's dragSideId (0: null)
  dragOffset            \* FlashcardCanvas's dragOffset (from the side's corner to the mouse)

dragVars == <<isDragging, dragSideId, dragOffset>>
canvasVars == <<sides, arrows, idCounter, canvasState, call, selectedTool,
                newArrowForEditing, dragVars>>
layoutVars == <<currentSet, currentFilePath, isSaving, saveError,
                hasUnsavedChanges, lastSavedState, autoSaveTimeoutRef,
                effectDue>>
serviceVars == <<disk, recentFiles, inFlight, returned, serviceCalls>>
fileVars == <<layoutVars, serviceVars>>
vars == <<canvasVars, fileVars>>

Pos(x, y) == [x |-> x, y |-> y]
Side(id, x, y, w, h) == [id |-> id, position |-> Pos(x, y), width |-> w, height |-> h]
Arrow(id, s, d) == [id |-> id, sourceId |-> s, destinationId |-> d]
Point(x, y) == [x |-> Num(x), y |-> Num(y)]

\* where a click or a drag can put a side
Positions == {Pos(0, 0), Pos(600, 0), Pos(0, 300)}

\* flashcards read from disk: validateFlashcardSet checks the field types
\* only, so a file may hold arrows without sides, sides without a size,
\* sides on top of each other and an arrow from a side to itself
Files ==
  { [sides  |-> <<Side(101, 0, 0, 120, 80), Side(102, 600, 0, 120, 80),
                  Side(103, 300, 0, 120, 80)>>,
     arrows |-> <<Arrow(201, 101, 102), Arrow(202, 101, 103)>>],
    [sides  |-> <<Side(101, 0, 0, 120, 80), Side(102, 600, 0, 120, 80)>>,
     arrows |-> <<Arrow(201, 101, 109), Arrow(202, 108, 102),
                  Arrow(203, 101, 102)>>],
    [sides  |-> <<Side(101, 0, 0, 0, 0), Side(102, 0, 300, 200, 100),
                  Side(103, 0, 300, 200, 100)>>,
     arrows |-> <<Arrow(201, 102, 101), Arrow(202, 101, 102),
                  Arrow(203, 103, 103)>> ] }

SideIds  == {sides[i].id : i \in 1..Len(sides)}
ArrowIds == {arrows[i].id : i \in 1..Len(arrows)}

NoSide == Side(0, 0, 0, 0, 0)
NoCall == [fn |-> "none", sourcePoint |-> Point(0, 0), destPoint |-> Point(0, 0),
           sourceEdge |-> "right", fromSide |-> NoSide, toSide |-> NoSide,
           returned |-> FALSE, path |-> <<>>, edge |-> "none",
           arrow |-> Arrow(0, 0, 0), pc |-> "none", stack |-> <<>>,
           destEdge |-> "right", visited |-> 0, list |-> <<>>]

\* what a path holds when no file is there, and the timer when none is set
NoFile == [kind |-> "none"]
NoSet == [id |-> 0, rev |-> 0]
NoTimeout == [set |-> NoSet, path |-> 0, isSaving |-> FALSE, live |-> FALSE]
NoResult == [value |-> "none"]

\* MainLayout and the file service when the application starts: no set, no
\* path, nothing saved, nothing scheduled; nothing on disk or in localStorage
NothingOpen ==
  /\ currentSet = NoSet /\ currentFilePath = 0 /\ isSaving = FALSE
  /\ saveError = "" /\ hasUnsavedChanges = FALSE /\ lastSavedState = NoSet
  /\ autoSaveTimeoutRef = NoTimeout /\ effectDue = FALSE
  /\ disk = <<>> /\ recentFiles = <<>> /\ inFlight = {}
  /\ returned = NoResult /\ serviceCalls = 0

\* FlashcardCanvas when no side is being dragged (handleCanvasMouseUp)
NotDragging ==
  isDragging = FALSE /\ dragSideId = 0 /\ dragOffset = [x |-> Num(0), y |-> Num(0)]

\* the canvas context at start: zoom 1, no pan, nothing selected, no arrow
\* being created (arrowSourceId 0: null)
ResetCanvas == [zoom |-> Num(1), panOffset |-> Point(0, 0),
                selectedSideIds |-> <<>>, selectedArrowIds |-> <<>>,
                isCreatingArrow |-> FALSE, arrowSourceId |-> 0]

Init ==
  /\ sides = <<>> /\ arrows = <<>> /\ idCounter = 0
  /\ canvasState = ResetCanvas
  /\ NotDragging
  /\ selectedTool = "select" /\ newArrowForEditing = 0
  /\ NothingOpen
  /\ call = NoCall

\* the actions of the canvas context's reducer, as MainLayout dispatches them
SELECT_SIDES(cs, payload)  == [cs EXCEPT !.selectedSideIds = payload]
SELECT_ARROWS(cs, payload) == [cs EXCEPT !.selectedArrowIds = payload]
CLEAR_SELECTION(cs) ==
  [cs EXCEPT !.selectedSideIds = <<>>, !.selectedArrowIds = <<>>]
START_ARROW_CREATION(cs, payload) ==
  [cs EXCEPT !.isCreatingArrow = TRUE, !.arrowSourceId = payload]
FINISH_ARROW_CREATION(cs) ==
  [cs EXCEPT !.isCreatingArrow = FALSE, !.arrowSourceId = 0]

\* FileManager onFileOpened: the first flashcard of the set read from disk
\* is shown, the selection cleared and an arrow creation ended
onFileOpened(file) ==
  /\ sides' = file.sides
  /\ arrows' = file.arrows
  /\ canvasState' = FINISH_ARROW_CREATION(CLEAR_SELECTION(canvasState))
  /\ UNCHANGED <<idCounter, call, selectedTool, newArrowForEditing, fileVars, dragVars>>

Tools == {"select", "add-side", "add-arrow"}

\* a handleToolSelect that leaves an arrow creation open
handleToolSelect_keepCreating(tool) ==
  /\ selectedTool' = tool
  /\ UNCHANGED <<sides, arrows, idCounter, canvasState, call, newArrowForEditing, fileVars, dragVars>>

handleToolSelect(tool) ==
  /\ selectedTool' = tool
  /\ canvasState' = IF tool = "add-arrow"
                    THEN FINISH_ARROW_CREATION(canvasState) ELSE canvasState
  /\ UNCHANGED <<sides, arrows, idCounter, call, newArrowForEditing, fileVars, dragVars>>

\* selectedSideIds.includes(sideId), selectedArrowIds.includes(arrowId)
Includes(ids, id) == \E n \in 1..Len(ids) : ids[n] = id
Without(ids, id) == SelectSeq(ids, LAMBDA other : other # id)

\* sideId 0: the empty string the canvas passes for a click on nothing
handleSideSelect(sideId, multiSelect) ==
  /\ canvasState' =
       IF selectedTool = "add-arrow"
       THEN IF ~canvasState.isCreatingArrow
            THEN START_ARROW_CREATION(canvasState, sideId) ELSE canvasState
       ELSE IF sideId = 0 THEN CLEAR_SELECTION(canvasState)
       ELSE IF multiSelect /\ Includes(canvasState.selectedSideIds, sideId)
       THEN SELECT_SIDES(canvasState,
                         Without(canvasState.selectedSideIds, sideId))
       ELSE IF multiSelect
       THEN SELECT_SIDES(canvasState,
                         Append(canvasState.selectedSideIds, sideId))
       ELSE SELECT_SIDES(canvasState, <<sideId>>)
  /\ UNCHANGED <<sides, arrows, idCounter, call, selectedTool,
                 newArrowForEditing, fileVars, dragVars>>

handleArrowSelect(arrowId, multiSelect) ==
  /\ canvasState' =
       IF arrowId = 0 THEN CLEAR_SELECTION(canvasState)
       ELSE IF multiSelect /\ Includes(canvasState.selectedArrowIds, arrowId)
       THEN SELECT_ARROWS(canvasState,
                          Without(canvasState.selectedArrowIds, arrowId))
       ELSE IF multiSelect
       THEN SELECT_ARROWS(canvasState,
                          Append(canvasState.selectedArrowIds, arrowId))
       ELSE SELECT_ARROWS(canvasState, <<arrowId>>)
  /\ UNCHANGED <<sides, arrows, idCounter, call, selectedTool,
                 newArrowForEditing, fileVars, dragVars>>

\* MainLayout.handleCanvasClick: a new side with the add-side tool, the
\* arrow being created given up with the add-arrow tool
handleCanvasClick(position) ==
  IF selectedTool = "add-side"
  THEN /\ Len(sides) < MaxSides
       /\ idCounter < MaxIds
       /\ idCounter' = idCounter + 1
       /\ sides' = Append(sides,
                          Side(idCounter + 1, position.x, position.y, 120, 80))
       /\ canvasState' = SELECT_SIDES(canvasState, <<idCounter + 1>>)
       /\ UNCHANGED <<arrows, call, selectedTool, newArrowForEditing, fileVars, dragVars>>
  ELSE IF selectedTool = "add-arrow"
  THEN /\ canvasState' = FINISH_ARROW_CREATION(canvasState)
       /\ UNCHANGED <<sides, arrows, idCounter, call, selectedTool,
                      newArrowForEditing, fileVars, dragVars>>
  ELSE UNCHANGED vars

\* mutant: every side is given the new position
updatedSides_all(ss, sideId, newPosition) ==
  [i \in 1..Len(ss) |-> [ss[i] EXCEPT !.position = newPosition]]

\* sides.map(side => side.id === sideId ? { ...side, position } : side)
updatedSides(ss, sideId, newPosition) ==
  [i \in 1..Len(ss) |->
     IF ss[i].id = sideId THEN [ss[i] EXCEPT !.position = newPosition]
     ELSE ss[i]]

handleSideMove(sideId, newPosition) ==
  /\ sides' = updatedSides(sides, sideId, newPosition)
  /\ sides' # sides
  /\ UNCHANGED <<arrows, idCounter, canvasState, call, selectedTool, newArrowForEditing, fileVars, dragVars>>

\* an arrow between the two sides in either direction counts as existing
FindArrow_unordered(as, sourceId, destinationId) ==
  IF \E i \in 1..Len(as) :
       {as[i].sourceId, as[i].destinationId} = {sourceId, destinationId}
  THEN CHOOSE i \in 1..Len(as) :
         {as[i].sourceId, as[i].destinationId} = {sourceId, destinationId}
  ELSE 0

\* arrows.find(arrow => arrow.sourceId === sourceId &&
\*                      arrow.destinationId === destinationId): index, 0 if none
FindArrow(as, sourceId, destinationId) ==
  IF \E i \in 1..Len(as) :
       as[i].sourceId = sourceId /\ as[i].destinationId = destinationId
  THEN CHOOSE i \in 1..Len(as) :
         /\ as[i].sourceId = sourceId /\ as[i].destinationId = destinationId
         /\ \A k \in 1..(i - 1) :
              ~(as[k].sourceId = sourceId /\ as[k].destinationId = destinationId)
  ELSE 0

\* the arrows after handleArrowCreate found no arrow of the pair
arrowsWith(as, newArrow) == Append(as, newArrow)

handleArrowCreate(sourceId, destinationId) ==
  IF FindArrow(arrows, sourceId, destinationId) # 0
  THEN /\ canvasState' =
            FINISH_ARROW_CREATION(
              SELECT_ARROWS(canvasState,
                <<arrows[FindArrow(arrows, sourceId, destinationId)].id>>))
       /\ newArrowForEditing' =
            arrows[FindArrow(arrows, sourceId, destinationId)].id
       /\ UNCHANGED <<sides, arrows, idCounter, call, selectedTool, fileVars, dragVars>>
  ELSE /\ Len(arrows) < MaxArrows
       /\ idCounter < MaxIds
       /\ idCounter' = idCounter + 1
       /\ arrows' = arrowsWith(arrows,
                               Arrow(idCounter + 1, sourceId, destinationId))
       /\ newArrowForEditing' = idCounter + 1
       /\ canvasState' = FINISH_ARROW_CREATION(canvasState)
       /\ UNCHANGED <<sides, call, selectedTool, fileVars, dragVars>>

\* the arrows handleSideDelete keeps
arrowsWithoutSides(as, sideIds) ==
  SelectSeq(as, LAMBDA arrow :
    arrow.sourceId \notin sideIds /\ arrow.destinationId \notin sideIds)

\* the ids of a selection that are not among the deleted ones
Remaining(ids, deleted) == SelectSeq(ids, LAMBDA id : id \notin deleted)

handleSideDelete(sideIds) ==
  /\ sides' = SelectSeq(sides, LAMBDA side : side.id \notin sideIds)
  /\ arrows' = arrowsWithoutSides(arrows, sideIds)
  /\ canvasState' =
       IF Len(Remaining(canvasState.selectedSideIds, sideIds))
            # Len(canvasState.selectedSideIds)
       THEN SELECT_SIDES(canvasState,
                         Remaining(canvasState.selectedSideIds, sideIds))
       ELSE canvasState
  /\ UNCHANGED <<idCounter, call, selectedTool, newArrowForEditing, fileVars, dragVars>>

handleArrowDelete(arrowIds) ==
  /\ arrows' = SelectSeq(arrows, LAMBDA arrow : arrow.id \notin arrowIds)
  /\ canvasState' =
       IF Len(Remaining(canvasState.selectedArrowIds, arrowIds))
            # Len(canvasState.selectedArrowIds)
       THEN SELECT_ARROWS(canvasState,
                          Remaining(canvasState.selectedArrowIds, arrowIds))
       ELSE canvasState
  /\ UNCHANGED <<sides, idCounter, call, selectedTool, newArrowForEditing, fileVars, dragVars>>

Next ==
  \/ \E file \in Files : onFileOpened(file)
  \/ \E tool \in Tools : handleToolSelect(tool)
  \/ \E position \in Positions : handleCanvasClick(position)
  \/ \E sideId \in SideIds, newPosition \in Positions :
       handleSideMove(sideId, newPosition)
  \/ \E sourceId \in SideIds : \E destinationId \in SideIds \ {sourceId} :
       handleArrowCreate(sourceId, destinationId)
  \/ \E sideId \in SideIds : handleSideDelete({sideId})
  \/ \E arrowId \in ArrowIds : handleArrowDelete({arrowId})

\* the editor: a new flashcard, files opened, sides and arrows made and deleted
Spec == Init /\ [][Next]_vars

\* ------------------------------------------------------------ canvas clicks
\* CanvasUtils.isPointInSide
isPointInSide(point, side) ==
  /\ point.x >= side.position.x
  /\ point.x <= side.position.x + (IF side.width = 0 THEN 100 ELSE side.width)
  /\ point.y >= side.position.y
  /\ point.y <= side.position.y + (IF side.height = 0 THEN 60 ELSE side.height)

\* FlashcardCanvas.findSideAtPosition: index of the first side the point is
\* in, 0 if none
findSideAtPosition(position, ss) ==
  IF \E i \in 1..Len(ss) : isPointInSide(position, ss[i])
  THEN CHOOSE i \in 1..Len(ss) :
         /\ isPointInSide(position, ss[i])
         /\ \A k \in 1..(i - 1) : ~isPointInSide(position, ss[k])
  ELSE 0

\* where the canvas is clicked (canvas coordinates): the middle of the three
\* places a side is put
ClickPoints == {Pos(60, 40), Pos(660, 40), Pos(60, 340)}

\* what findArrowAtPosition can return: an arrow with a path, or nothing (0)
ArrowsWithPath ==
  {arrows[i].id : i \in {k \in 1..Len(arrows) :
     FindSide(sides, arrows[k].sourceId) # 0
       /\ FindSide(sides, arrows[k].destinationId) # 0}}

\* the second click makes an arrow to whatever side it is on
clickToAddArrow_anySide(clickedSide) ==
  IF ~canvasState.isCreatingArrow
  THEN handleSideSelect(sides[clickedSide].id, FALSE)
  ELSE IF canvasState.arrowSourceId # 0
  THEN handleArrowCreate(canvasState.arrowSourceId, sides[clickedSide].id)
  ELSE UNCHANGED vars

\* the click with the add-arrow tool on the side of index clickedSide
clickToAddArrow(clickedSide) ==
  IF ~canvasState.isCreatingArrow
  THEN handleSideSelect(sides[clickedSide].id, FALSE)
  ELSE IF canvasState.arrowSourceId # 0
            /\ sides[clickedSide].id # canvasState.arrowSourceId
  THEN handleArrowCreate(canvasState.arrowSourceId, sides[clickedSide].id)
  ELSE UNCHANGED vars

\* FlashcardCanvas.handleCanvasClick (the canvas's onClick) at canvasPos;
\* arrowAtPosition is what findArrowAtPosition returns, multiSelect whether
\* ctrl or meta is held; grid snapping is off
onClick(canvasPos, clickedSide, arrowAtPosition, multiSelect) ==
  IF selectedTool = "add-side" /\ clickedSide = 0
  THEN handleCanvasClick(Pos(canvasPos.x - 60, canvasPos.y - 40))
  ELSE IF selectedTool = "add-arrow"
  THEN IF clickedSide # 0 THEN clickToAddArrow(clickedSide)
       ELSE handleCanvasClick(canvasPos)
  ELSE IF selectedTool = "select"
  THEN IF clickedSide # 0
       THEN handleSideSelect(sides[clickedSide].id, multiSelect)
       ELSE IF arrowAtPosition # 0
       THEN handleArrowSelect(arrowAtPosition, multiSelect)
       ELSE handleSideSelect(0, FALSE)
  ELSE UNCHANGED vars

\* the canvas's effect on newArrowForEditing: the arrow's label is opened
\* for editing and onEditingComplete resets newArrowForEditing
onEditingComplete ==
  /\ newArrowForEditing # 0
  /\ \E i \in 1..Len(arrows) : arrows[i].id = newArrowForEditing
  /\ newArrowForEditing' = 0
  /\ UNCHANGED <<sides, arrows, idCounter, canvasState, call, selectedTool, fileVars, dragVars>>

\* what findArrowAtPosition can return for a click: it is called by the
\* select tool for a click on no side only; 0 stands for no arrow
ArrowsClickedAt(canvasPos) ==
  IF selectedTool = "select" /\ findSideAtPosition(canvasPos, sides) = 0
  THEN ArrowsWithPath \cup {0}
  ELSE {0}

\* a new flashcard edited on the canvas: tools chosen, the canvas clicked
\* (without ctrl or meta), a side or an arrow deleted
NextEditor ==
  \/ \E tool \in Tools : handleToolSelect(tool)
  \/ \E canvasPos \in ClickPoints :
       \E arrowAtPosition \in ArrowsClickedAt(canvasPos) :
         onClick(canvasPos, findSideAtPosition(canvasPos, sides),
                 arrowAtPosition, FALSE)
  \/ \E sideId \in SideIds : handleSideDelete({sideId})
  \/ \E arrowId \in ArrowIds : handleArrowDelete({arrowId})
  \/ onEditingComplete

SpecEditor == Init /\ [][NextEditor]_vars

\* ----------------------------------------------------------- recent files
MAX_RECENT_FILES == 10

\* a FileMetadata entry; name, lastModified and size are left out
FileMetadata(filePath, type) == [path |-> filePath, type |-> type]

\* recentFiles.filter(f => f.path !== filePath)
WithoutPath(files, filePath) == SelectSeq(files, LAMBDA f : f.path # filePath)

\* list.slice(0, n)
Slice(list, n) == SubSeq(list, 1, IF Len(list) < n THEN Len(list) ELSE n)

\* an addToRecentFiles that does not remove the entry of the path
updatedRecentFiles_unfiltered(files, filePath, type) ==
  Slice(<<FileMetadata(filePath, type)>> \o files, MAX_RECENT_FILES)

\* addToRecentFiles: the list it stores, from the list getRecentFiles read
updatedRecentFiles(files, filePath, type) ==
  Slice(<<FileMetadata(filePath, type)>> \o WithoutPath(files, filePath),
        MAX_RECENT_FILES)

\* addToRecentFiles up to its await of the file's stat: the list is read
addToRecentFiles(filePath, type) ==
  /\ serviceCalls < MaxServiceCalls
  /\ serviceCalls' = serviceCalls + 1
  /\ inFlight' = inFlight \cup
       {[fn |-> "addToRecentFiles", call |-> serviceCalls + 1,
         filePath |-> filePath, type |-> type, recentFiles |-> recentFiles]}
  /\ UNCHANGED <<canvasVars, layoutVars, disk, recentFiles, returned>>

\* addToRecentFiles after the await: the updated list is stored
recentFilesStored(c) ==
  /\ c.fn = "addToRecentFiles"
  /\ recentFiles' = updatedRecentFiles(c.recentFiles, c.filePath, c.type)
  /\ inFlight' = inFlight \ {c}
  /\ UNCHANGED <<canvasVars, layoutVars, disk, returned, serviceCalls>>

\* the paths added: the first, one in the middle and the last two of a full
\* list, and two paths no list has
RecentPaths == {1, 5, 9, 10, 11, 12}

\* the list after paths n, n-1, ..., 1 were opened one after the other
RecentOf(n) == [i \in 1..n |-> FileMetadata(i, "set")]

InitRecent ==
  /\ sides = <<>> /\ arrows = <<>> /\ idCounter = 0
  /\ canvasState = ResetCanvas
  /\ NotDragging
  /\ selectedTool = "select" /\ newArrowForEditing = 0
  /\ call = NoCall
  /\ currentSet = NoSet /\ currentFilePath = 0 /\ isSaving = FALSE
  /\ saveError = "" /\ hasUnsavedChanges = FALSE /\ lastSavedState = NoSet
  /\ autoSaveTimeoutRef = NoTimeout /\ effectDue = FALSE
  /\ disk = <<>> /\ inFlight = {}
  /\ returned = NoResult /\ serviceCalls = 0
  /\ recentFiles \in {RecentOf(0), RecentOf(MAX_RECENT_FILES - 1),
                      RecentOf(MAX_RECENT_FILES)}

NextRecent ==
  \/ \E filePath \in RecentPaths : addToRecentFiles(filePath, "set")
  \/ addToRecentFiles(5, "template")
  \/ \E c \in inFlight : recentFilesStored(c)

\* open and save operations adding their paths to the recent files
SpecRecent == InitRecent /\ [][NextRecent]_vars

\* ---------------------------------------------------------- opening files
\* JSON values as JSON.parse returns them, each with its typeof
Undefined == [t |-> "undefined"]
Null      == [t |-> "null"]
Str(v)    == [t |-> "string", v |-> v]
NumV(v)   == [t |-> "number", v |-> v]
Arr(v)    == [t |-> "array", v |-> v]
Obj(v)    == [t |-> "object", v |-> v]

\* x.f: undefined when x has no such property
Field(x, f) ==
  IF x.t = "object" /\ f \in DOMAIN x.v THEN x.v[f] ELSE Undefined

\* the operand of && and ! taken as a boolean
Truthy(x) ==
  CASE x.t \in {"undefined", "null"} -> FALSE
    [] x.t = "string" -> x.v # ""
    [] x.t = "number" -> x.v # 0
    [] OTHER -> TRUE

TypeofIs(x, type) == x.t = type

\* array.every(check), for an x that Array.isArray accepted
Every(x, check(_)) == \A n \in 1..Len(x.v) : check(x.v[n])

validSide(side) ==
  /\ Truthy(side)
  /\ TypeofIs(Field(side, "id"), "string")
  /\ TypeofIs(Field(side, "value"), "string")
  /\ Truthy(Field(side, "position"))
  /\ TypeofIs(Field(Field(side, "position"), "x"), "number")
  /\ TypeofIs(Field(Field(side, "position"), "y"), "number")

validArrow(arrow) ==
  /\ Truthy(arrow)
  /\ TypeofIs(Field(arrow, "id"), "string")
  /\ TypeofIs(Field(arrow, "sourceId"), "string")
  /\ TypeofIs(Field(arrow, "destinationId"), "string")
  /\ TypeofIs(Field(arrow, "label"), "string")

validCard(card) ==
  /\ Truthy(card)
  /\ TypeofIs(Field(card, "id"), "string")
  /\ Field(card, "sides").t = "array"
  /\ Field(card, "arrows").t = "array"
  /\ Every(Field(card, "sides"), validSide)
  /\ Every(Field(card, "arrows"), validArrow)

\* TauriFileService.validateFlashcardSet
validateFlashcardSet(data) ==
  /\ Truthy(data)
  /\ TypeofIs(Field(data, "id"), "string")
  /\ TypeofIs(Field(data, "name"), "string")
  /\ Field(data, "flashcards").t = "array"
  /\ TypeofIs(Field(data, "version"), "string")
  /\ Truthy(Field(data, "createdAt"))
  /\ Truthy(Field(data, "modifiedAt"))
  /\ Every(Field(data, "flashcards"), validCard)

\* what a file holds: text that JSON.parse rejects, or text it parses
TextFile == [kind |-> "text"]
JsonFile(data) == [kind |-> "json", data |-> data]

SideJson(id, x, y) ==
  Obj([id |-> Str(id), value |-> Str(""),
       position |-> Obj([x |-> x, y |-> y])])
ArrowJson(id, sourceId, destinationId) ==
  Obj([id |-> Str(id), sourceId |-> Str(sourceId),
       destinationId |-> Str(destinationId), label |-> Str("")])
CardJson(sides_, arrows_) ==
  Obj([id |-> Str("card"), sides |-> Arr(sides_), arrows |-> Arr(arrows_)])

\* a set as saveFlashcardSet writes it
SetJson == 
  Obj([id |-> Str("set"), name |-> Str("New Flashcard Set"),
       flashcards |-> Arr(<<CardJson(<<SideJson("a", NumV(0), NumV(0)),
                                        SideJson("b", NumV(600), NumV(0))>>,
                                      <<ArrowJson("c", "a", "b")>>)>>),
       version |-> Str("1.0.0"),
       createdAt |-> Str("2025-01-01"), modifiedAt |-> Str("2025-01-02")])
\* the same without its version
SetJsonNoVersion ==
  Obj([id |-> Str("set"), name |-> Str("New Flashcard Set"),
       flashcards |-> Arr(<<>>),
       createdAt |-> Str("2025-01-01"), modifiedAt |-> Str("2025-01-02")])
\* a set with a side whose position.y is a string
SetJsonBadSide ==
  Obj([id |-> Str("set"), name |-> Str("New Flashcard Set"),
       flashcards |-> Arr(<<CardJson(<<SideJson("a", NumV(0), Str("0"))>>,
                                      <<>>)>>),
       version |-> Str("1.0.0"),
       createdAt |-> Str("2025-01-01"), modifiedAt |-> Str("2025-01-02")])

\* the files of the open dialog: a set, three JSON files that are no sets,
\* a file that is no JSON, and a path without a file
OpenPaths == 1..6
DiskAtStart ==
  <<JsonFile(SetJson), JsonFile(SetJsonNoVersion), JsonFile(SetJsonBadSide),
    JsonFile(Null), TextFile, NoFile>>

OpenError(message) == [value |-> "error", message |-> message]
OpenedSet(data, filePath) ==
  [value |-> "set", set |-> data, filePath |-> filePath]
NullResult == [value |-> "null"]

\* an open that returns whatever JSON the file holds
readFlashcardSet_unvalidated(content, filePath) ==
  IF content.kind = "none" THEN OpenError("read failed")
  ELSE IF content.kind = "text" THEN OpenError("Unexpected token")
  ELSE OpenedSet(content.data, filePath)

\* readTextFile, JSON.parse and validateFlashcardSet of the two open
\* functions: the error thrown, or the set that will be returned
readFlashcardSet(content, filePath) ==
  IF content.kind = "none" THEN OpenError("read failed")
  ELSE IF content.kind = "text" THEN OpenError("Unexpected token")
  ELSE IF ~validateFlashcardSet(content.data)
  THEN OpenError("Invalid flashcard set file format")
  ELSE OpenedSet(content.data, filePath)

\* openFlashcardSet: the open dialog is shown
openFlashcardSet ==
  /\ serviceCalls < MaxServiceCalls
  /\ serviceCalls' = serviceCalls + 1
  /\ inFlight' = inFlight \cup
       {[fn |-> "openFlashcardSet", call |-> serviceCalls + 1,
         phase |-> "dialog", filePath |-> 0, recentFiles |-> <<>>]}
  /\ UNCHANGED <<canvasVars, layoutVars, disk, recentFiles, returned>>

\* the dialog is closed with a file chosen, or cancelled (filePath 0: null)
openDialogClosed(c, filePath) ==
  /\ c.fn = "openFlashcardSet" /\ c.phase = "dialog"
  /\ IF filePath = 0
     THEN /\ returned' = NullResult
          /\ inFlight' = inFlight \ {c}
     ELSE /\ inFlight' = (inFlight \ {c}) \cup
               {[c EXCEPT !.phase = "read", !.filePath = filePath]}
          /\ UNCHANGED returned
  /\ UNCHANGED <<canvasVars, layoutVars, disk, recentFiles, serviceCalls>>

openFlashcardSetByPath(filePath) ==
  /\ serviceCalls < MaxServiceCalls
  /\ serviceCalls' = serviceCalls + 1
  /\ inFlight' = inFlight \cup
       {[fn |-> "openFlashcardSetByPath", call |-> serviceCalls + 1,
         phase |-> "read", filePath |-> filePath, recentFiles |-> <<>>]}
  /\ UNCHANGED <<canvasVars, layoutVars, disk, recentFiles, returned>>

\* readTextFile has answered: the content is parsed and validated; an error
\* is thrown, or addToRecentFiles is called and reads the list
openFileRead(c) ==
  /\ c.fn \in {"openFlashcardSet", "openFlashcardSetByPath"}
  /\ c.phase = "read"
  /\ IF readFlashcardSet(disk[c.filePath], c.filePath).value = "error"
     THEN /\ returned' = readFlashcardSet(disk[c.filePath], c.filePath)
          /\ inFlight' = inFlight \ {c}
     ELSE /\ inFlight' = (inFlight \ {c}) \cup
               {[c EXCEPT !.phase = "recent", !.recentFiles = recentFiles]}
          /\ UNCHANGED returned
  /\ UNCHANGED <<canvasVars, layoutVars, disk, recentFiles, serviceCalls>>

\* addToRecentFiles has stored the list: the set is returned (with its path
\* by openFlashcardSet)
openReturned(c) ==
  /\ c.fn \in {"openFlashcardSet", "openFlashcardSetByPath"}
  /\ c.phase = "recent"
  /\ recentFiles' = updatedRecentFiles(c.recentFiles, c.filePath, "set")
  /\ returned' = readFlashcardSet(disk[c.filePath], c.filePath)
  /\ inFlight' = inFlight \ {c}
  /\ UNCHANGED <<canvasVars, layoutVars, disk, serviceCalls>>

InitOpen ==
  /\ sides = <<>> /\ arrows = <<>> /\ idCounter = 0
  /\ canvasState = ResetCanvas
  /\ NotDragging
  /\ selectedTool = "select" /\ newArrowForEditing = 0
  /\ call = NoCall
  /\ currentSet = NoSet /\ currentFilePath = 0 /\ isSaving = FALSE
  /\ saveError = "" /\ hasUnsavedChanges = FALSE /\ lastSavedState = NoSet
  /\ autoSaveTimeoutRef = NoTimeout /\ effectDue = FALSE
  /\ disk = DiskAtStart /\ inFlight = {}
  /\ returned = NoResult /\ serviceCalls = 0
  /\ recentFiles \in {RecentOf(0), RecentOf(2)}

NextOpen ==
  \/ openFlashcardSet
  \/ \E c \in inFlight, filePath \in OpenPaths \cup {0} :
       openDialogClosed(c, filePath)
  \/ \E filePath \in OpenPaths : openFlashcardSetByPath(filePath)
  \/ \E c \in inFlight : openFileRead(c)
  \/ \E c \in inFlight : openReturned(c)

\* files opened through the dialog and from the recent files
SpecOpen == InitOpen /\ [][NextOpen]_vars

\* ------------------------------------------------------------------ saving
\* The set with its current flashcard is a record [id, rev]: every edit
\* stamps modifiedAt, so each edit and each new set takes a new rev from
\* idCounter.  JSON.stringify({set, flashcard}) of two such records is the
\* same string exactly when the records are equal, so lastSavedState holds
\* the record (NoSet: null).
SavePaths == {1, 2}

\* the save dialog is shown: the window takes no input until it is closed
DialogOpen == \E c \in inFlight : c.phase = "dialog"

\* the functions checkForUnsavedChanges depends on have changed in this
\* step: React runs its effect after the render
DepsChanged ==
  \/ currentSet' # currentSet
  \/ lastSavedState' # lastSavedState
  \/ currentFilePath' # currentFilePath

\* updateCurrentFlashcard, handleCreateFlashcard: an edit of the set
updateCurrentFlashcard ==
  /\ ~effectDue /\ ~DialogOpen
  /\ currentSet # NoSet
  /\ idCounter < MaxEdits
  /\ idCounter' = idCounter + 1
  /\ currentSet' = [currentSet EXCEPT !.rev = idCounter + 1]
  /\ effectDue' = TRUE
  /\ UNCHANGED <<sides, arrows, canvasState, call, selectedTool,
                 newArrowForEditing, currentFilePath, isSaving, saveError,
                 hasUnsavedChanges, lastSavedState, autoSaveTimeoutRef,
                 serviceVars, dragVars>>

\* the effect on checkForUnsavedChanges; the timer's callback closes over
\* currentFilePath and over the handleAutoSave of this render, which closes
\* over appState.currentSet, currentFilePath and isSaving
checkForUnsavedChanges ==
  /\ effectDue
  /\ effectDue' = FALSE
  /\ IF currentSet = NoSet
     THEN hasUnsavedChanges' = FALSE /\ UNCHANGED autoSaveTimeoutRef
     ELSE IF lastSavedState # NoSet /\ currentSet # lastSavedState
     THEN /\ hasUnsavedChanges' = TRUE
          /\ autoSaveTimeoutRef' =
               [live |-> TRUE, set |-> currentSet, path |-> currentFilePath,
                isSaving |-> isSaving]
     ELSE IF lastSavedState = NoSet
     THEN hasUnsavedChanges' = TRUE /\ UNCHANGED autoSaveTimeoutRef
     ELSE UNCHANGED <<hasUnsavedChanges, autoSaveTimeoutRef>>
  /\ UNCHANGED <<canvasVars, currentSet, currentFilePath, isSaving, saveError,
                 lastSavedState, serviceVars>>

\* a save call awaiting the dialog or the disk; set and filePath are the
\* appState.currentSet and the path of the closure that made the call
SaveCall(fn, n, phase, set, filePath) ==
  [fn |-> fn, call |-> n, phase |-> phase, set |-> set, filePath |-> filePath]

\* handleSave, from Ctrl+S or from the Save button (disabled while isSaving),
\* up to the await in saveFlashcardSet
handleSave(key) ==
  /\ ~effectDue /\ ~DialogOpen
  /\ currentSet # NoSet
  /\ key = "button" => ~isSaving
  /\ serviceCalls < MaxSaveCalls
  /\ serviceCalls' = serviceCalls + 1
  /\ isSaving' = TRUE
  /\ saveError' = ""
  /\ inFlight' = inFlight \cup
       {SaveCall("handleSave", serviceCalls + 1,
                 IF currentFilePath = 0 THEN "dialog" ELSE "write",
                 currentSet, currentFilePath)}
  /\ UNCHANGED <<canvasVars, currentSet, currentFilePath, hasUnsavedChanges,
                 lastSavedState, autoSaveTimeoutRef, effectDue, disk,
                 recentFiles, returned>>

\* handleSaveAs, from Ctrl+Shift+S or from the Save As button
handleSaveAs(key) ==
  /\ ~effectDue /\ ~DialogOpen
  /\ currentSet # NoSet
  /\ key = "button" => ~isSaving
  /\ serviceCalls < MaxSaveCalls
  /\ serviceCalls' = serviceCalls + 1
  /\ isSaving' = TRUE
  /\ saveError' = ""
  /\ inFlight' = inFlight \cup
       {SaveCall("handleSaveAs", serviceCalls + 1, "dialog", currentSet, 0)}
  /\ UNCHANGED <<canvasVars, currentSet, currentFilePath, hasUnsavedChanges,
                 lastSavedState, autoSaveTimeoutRef, effectDue, disk,
                 recentFiles, returned>>

\* a failed save that marks the set as saved all the same
saveFailed_markedSaved(c, message) ==
  /\ inFlight' = inFlight \ {c}
  /\ saveError' = message
  /\ isSaving' = FALSE
  /\ hasUnsavedChanges' = FALSE
  /\ UNCHANGED <<canvasVars, currentSet, currentFilePath, lastSavedState,
                 autoSaveTimeoutRef, effectDue, disk, recentFiles, returned,
                 serviceCalls>>

\* saveFlashcardSet has thrown: the catch and finally blocks of handleSave
\* and handleSaveAs; handleAutoSave only logs
saveFailed(c, message) ==
  /\ inFlight' = inFlight \ {c}
  /\ IF c.fn = "handleAutoSave"
     THEN UNCHANGED <<saveError, isSaving>>
     ELSE saveError' = message /\ isSaving' = FALSE
  /\ UNCHANGED <<canvasVars, currentSet, currentFilePath, hasUnsavedChanges,
                 lastSavedState, autoSaveTimeoutRef, effectDue, disk,
                 recentFiles, returned, serviceCalls>>

\* the save dialog is closed with a path chosen, or cancelled (filePath 0)
saveDialogClosed(c, filePath) ==
  /\ ~effectDue
  /\ c.fn \in {"handleSave", "handleSaveAs"} /\ c.phase = "dialog"
  /\ IF filePath = 0
     THEN saveFailed(c, "Save cancelled")
     ELSE /\ inFlight' = (inFlight \ {c}) \cup
               {[c EXCEPT !.phase = "write", !.filePath = filePath]}
          /\ UNCHANGED <<canvasVars, layoutVars, disk, recentFiles, returned,
                         serviceCalls>>

\* writeTextFile has answered: with an error, or the file is written, its
\* path added to the recent files and the handler continues after its await
fileWritten(c, ok) ==
  /\ ~effectDue
  /\ c.fn \in {"handleSave", "handleSaveAs", "handleAutoSave"}
  /\ c.phase = "write"
  /\ IF ~ok
     THEN saveFailed(c, "write failed")
     ELSE /\ disk' = [disk EXCEPT ![c.filePath] = [kind |-> "json", data |-> c.set]]
          /\ recentFiles' = updatedRecentFiles(recentFiles, c.filePath, "set")
          /\ inFlight' = inFlight \ {c}
          /\ lastSavedState' = c.set
          /\ hasUnsavedChanges' = FALSE
          /\ IF c.fn = "handleAutoSave"
             THEN UNCHANGED <<currentFilePath, autoSaveTimeoutRef, isSaving>>
             ELSE /\ currentFilePath' = c.filePath
                  /\ autoSaveTimeoutRef' = NoTimeout
                  /\ isSaving' = FALSE
          /\ UNCHANGED <<canvasVars, currentSet, saveError, returned,
                         serviceCalls>>
          /\ effectDue' = DepsChanged

\* the 30 seconds of the timer are over: its callback calls the
\* handleAutoSave it closed over unless the path it closed over is null
autoSaveTimerFired ==
  /\ ~effectDue
  /\ autoSaveTimeoutRef.live
  /\ autoSaveTimeoutRef' = NoTimeout
  /\ IF /\ autoSaveTimeoutRef.path # 0
        /\ autoSaveTimeoutRef.set # NoSet
        /\ ~autoSaveTimeoutRef.isSaving
     THEN /\ serviceCalls < MaxSaveCalls
          /\ serviceCalls' = serviceCalls + 1
          /\ inFlight' = inFlight \cup
               {SaveCall("handleAutoSave", serviceCalls + 1, "write",
                         autoSaveTimeoutRef.set, autoSaveTimeoutRef.path)}
     ELSE UNCHANGED <<inFlight, serviceCalls>>
  /\ UNCHANGED <<canvasVars, currentSet, currentFilePath, isSaving, saveError,
                 hasUnsavedChanges, lastSavedState, effectDue, disk,
                 recentFiles, returned>>

\* handleKeyDown, Ctrl+N: a new set without a path
handleKeyDownNew ==
  /\ ~effectDue /\ ~DialogOpen
  /\ idCounter < MaxEdits
  /\ idCounter' = idCounter + 1
  /\ currentSet' = [id |-> idCounter + 1, rev |-> idCounter + 1]
  /\ currentFilePath' = 0
  /\ lastSavedState' = NoSet
  /\ hasUnsavedChanges' = TRUE
  /\ effectDue' = TRUE
  /\ UNCHANGED <<sides, arrows, canvasState, call, selectedTool,
                 newArrowForEditing, isSaving, saveError, autoSaveTimeoutRef,
                 serviceVars, dragVars>>

\* the FileManager has opened the set of a file and made it the current
\* set; its onFileOpened callback
setFileOpened(filePath) ==
  /\ ~effectDue /\ ~DialogOpen
  /\ disk[filePath].kind = "json"
  /\ serviceCalls < MaxSaveCalls
  /\ serviceCalls' = serviceCalls + 1
  /\ currentSet' = disk[filePath].data
  /\ currentFilePath' = filePath
  /\ canvasState' = FINISH_ARROW_CREATION(CLEAR_SELECTION(canvasState))
  /\ lastSavedState' = disk[filePath].data
  /\ hasUnsavedChanges' = FALSE
  /\ recentFiles' = updatedRecentFiles(recentFiles, filePath, "set")
  /\ effectDue' = DepsChanged
  /\ UNCHANGED <<sides, arrows, idCounter, call, selectedTool,
                 newArrowForEditing, isSaving, saveError, autoSaveTimeoutRef,
                 disk, inFlight, returned, dragVars>>

\* the error banner's dismiss button
dismissError ==
  /\ ~effectDue /\ ~DialogOpen
  /\ saveError # ""
  /\ saveError' = ""
  /\ UNCHANGED <<canvasVars, currentSet, currentFilePath, isSaving,
                 hasUnsavedChanges, lastSavedState, autoSaveTimeoutRef,
                 effectDue, serviceVars>>

\* the set of the file at path 1
SetOnDisk == [id |-> 100, rev |-> 100]

\* the application with one set on disk: just started, or with that set
\* opened from the FileManager
InitSave ==
  /\ sides = <<>> /\ arrows = <<>> /\ idCounter = 0
  /\ canvasState = ResetCanvas
  /\ NotDragging
  /\ selectedTool = "select" /\ newArrowForEditing = 0
  /\ call = NoCall
  /\ isSaving = FALSE /\ saveError = "" /\ hasUnsavedChanges = FALSE
  /\ autoSaveTimeoutRef = NoTimeout /\ effectDue = FALSE
  /\ disk = [filePath \in SavePaths |->
               IF filePath = 1 THEN [kind |-> "json", data |-> SetOnDisk]
               ELSE NoFile]
  /\ inFlight = {}
  /\ returned = NoResult /\ serviceCalls = 0
  /\ \/ /\ currentSet = NoSet /\ currentFilePath = 0
        /\ lastSavedState = NoSet /\ recentFiles = <<>>
     \/ /\ currentSet = SetOnDisk /\ currentFilePath = 1
        /\ lastSavedState = SetOnDisk
        /\ recentFiles = <<FileMetadata(1, "set")>>

NextSave ==
  \/ updateCurrentFlashcard
  \/ checkForUnsavedChanges
  \/ \E key \in {"button", "shortcut"} : handleSave(key)
  \/ \E key \in {"button", "shortcut"} : handleSaveAs(key)
  \/ \E c \in inFlight, filePath \in SavePaths \cup {0} :
       saveDialogClosed(c, filePath)
  \/ \E c \in inFlight, ok \in BOOLEAN : fileWritten(c, ok)
  \/ autoSaveTimerFired
  \/ handleKeyDownNew
  \/ \E filePath \in SavePaths : setFileOpened(filePath)
  \/ dismissError

\* saving: edits, manual saves, the auto-save timer, new sets, files opened
SpecSave == InitSave /\ [][NextSave]_vars

\* ---------------------------------------------------------------- dragging
\* a flashcard opened from a file: sides and arrows selected with the select
\* tool (with and without ctrl), a selected side dragged (handleCanvasMouseDown
\* starts a drag on a selected side only)
NextMove ==
  \/ \E sideId \in SideIds \cup {0}, multiSelect \in BOOLEAN :
       handleSideSelect(sideId, multiSelect)
  \/ \E arrowId \in ArrowIds : handleArrowSelect(arrowId, FALSE)
  \/ \E sideId \in SideIds, newPosition \in Positions :
       /\ Includes(canvasState.selectedSideIds, sideId)
       /\ handleSideMove(sideId, newPosition)

\* ---------------------------------------------------------------- routing
\* a flashcard opened from a file, its sides dragged and arrows added
InitRouting ==
  /\ \E file \in Files : sides = file.sides /\ arrows = file.arrows
  /\ idCounter = 0
  /\ canvasState = ResetCanvas
  /\ NotDragging
  /\ selectedTool = "select" /\ newArrowForEditing = 0
  /\ NothingOpen
  /\ call = NoCall

\* (arrows are added between sides that have none in that direction)
NextRouting ==
  \/ \E sideId \in SideIds, newPosition \in Positions :
       handleSideMove(sideId, newPosition)
  \/ \E sourceId \in SideIds : \E destinationId \in SideIds \ {sourceId} :
       /\ FindArrow(arrows, sourceId, destinationId) = 0
       /\ handleArrowCreate(sourceId, destinationId)

SpecRouting == InitRouting /\ [][NextRouting]_vars

SpecMove == InitRouting /\ [][NextMove]_vars

\* ------------------------------------------------------------ direct calls
\* arguments of calculateArrowPathWithTravel
TravelPoints == {Point(0, 0), Point(100, 0), Point(0, 100), Point(300, 400),
                 Point(150, -50)}

\* arguments of determineEdgeFromVector
EdgeSides ==
  { Side(1, 0, 0, 120, 80),     Side(2, 600, 0, 120, 80),
    Side(3, 300, 10, 0, 0),     Side(4, 500, -10, 200, 100),
    Side(5, -441, -294, 120, 80), Side(6, 441, -294, 120, 80),
    Side(7, 0, 300, 120, 80),   Side(8, 180, 120, 120, 80),
    Side(9, 0, 0, 200, 100),    Side(10, -180, 120, 120, 80) }

InitCalls ==
  /\ sides = <<>> /\ arrows = <<>> /\ idCounter = 0
  /\ canvasState = ResetCanvas
  /\ NotDragging
  /\ selectedTool = "select" /\ newArrowForEditing = 0
  /\ NothingOpen
  /\ \/ \E sp \in TravelPoints, dp \in TravelPoints, se \in Edges :
          call = [NoCall EXCEPT !.fn = "calculateArrowPathWithTravel",
                                !.sourcePoint = sp, !.destPoint = dp,
                                !.sourceEdge = se]
     \/ \E f \in EdgeSides, t \in EdgeSides :
          call = [NoCall EXCEPT !.fn = "determineEdgeFromVector",
                                !.fromSide = f, !.toSide = t]

callTravel ==
  /\ call.fn = "calculateArrowPathWithTravel" /\ ~call.returned
  /\ call' = [call EXCEPT !.returned = TRUE,
                !.path = calculateArrowPathWithTravel(call.sourcePoint,
                           call.destPoint, call.sourceEdge)]
  /\ UNCHANGED <<sides, arrows, idCounter, canvasState, selectedTool, newArrowForEditing, fileVars, dragVars>>

callEdge ==
  /\ call.fn = "determineEdgeFromVector" /\ ~call.returned
  /\ call' = [call EXCEPT !.returned = TRUE,
                !.edge = determineEdgeFromVector(call.fromSide, call.toSide)]
  /\ UNCHANGED <<sides, arrows, idCounter, canvasState, selectedTool, newArrowForEditing, fileVars, dragVars>>

NextCalls == callTravel \/ callEdge

SpecCalls == InitCalls /\ [][NextCalls]_vars

\* ------------------------------------------------------------ path calls
\* mutant: the comparator is handed to allArrows.sort, which reorders the
\* caller's list
allArrowsAfter_sortedInPlace(side, edge, allArrows, ss) ==
  sortEdgeArrows(allArrows, side, edge, ss)

\* allArrows after getSideEdgeConnectionPoint: filter builds a new array and
\* sort orders that array, so the caller's list is as it was
allArrowsAfter(side, edge, allArrows, ss) == allArrows

\* the caller's list after calculateAdvancedArrowPath: one
\* getSideEdgeConnectionPoint for the source edge, then one for the
\* destination edge, none when a side is missing
arrowsAfterPath(arrow, allArrows, ss) ==
  IF FindSide(ss, arrow.sourceId) = 0 \/ FindSide(ss, arrow.destinationId) = 0
  THEN allArrows
  ELSE allArrowsAfter(
         ss[FindSide(ss, arrow.destinationId)],
         determineEdgeFromVector(ss[FindSide(ss, arrow.destinationId)],
                                 ss[FindSide(ss, arrow.sourceId)]),
         allArrowsAfter(
           ss[FindSide(ss, arrow.sourceId)],
           determineEdgeFromVector(ss[FindSide(ss, arrow.sourceId)],
                                   ss[FindSide(ss, arrow.destinationId)]),
           allArrows, ss),
         ss)

\* FlashcardCanvas.calculateArrowPath calls calculateAdvancedArrowPath with
\* the flashcard's arrows and sides
callPath(arrow) ==
  /\ call = NoCall
  /\ call' = [NoCall EXCEPT !.fn = "calculateAdvancedArrowPath",
                            !.arrow = arrow, !.returned = TRUE,
                            !.path = calculateAdvancedArrowPath(arrow, arrows, sides)]
  /\ arrows' = arrowsAfterPath(arrow, arrows, sides)
  /\ UNCHANGED <<sides, idCounter, canvasState, selectedTool, newArrowForEditing, fileVars, dragVars>>

\* the path is drawn and dropped
pathDrawn ==
  /\ call.fn = "calculateAdvancedArrowPath" /\ call.returned
  /\ call' = NoCall
  /\ UNCHANGED <<sides, arrows, idCounter, canvasState, selectedTool, newArrowForEditing, fileVars, dragVars>>

\* a flashcard opened from a file, its first side dragged, arrows added from
\* it and arrows deleted, and the paths computed for drawing in between (one
\* thread: a handler runs when no path computation is under way)
NextPaths ==
  \/ /\ call = NoCall
     /\ \E newPosition \in Positions : handleSideMove(sides[1].id, newPosition)
  \/ /\ call = NoCall
     /\ \E destinationId \in SideIds \ {sides[1].id} :
          (FindArrow(arrows, sides[1].id, destinationId) = 0
            /\ handleArrowCreate(sides[1].id, destinationId))
  \/ /\ call = NoCall
     /\ \E arrowId \in ArrowIds : handleArrowDelete({arrowId})
  \/ \E i \in 1..Len(arrows) : callPath(arrows[i])
  \/ pathDrawn

SpecPaths == InitRouting /\ [][NextPaths]_vars

\* ------------------------------------------------------------- path steps
\* calculateAdvancedArrowPath followed call by call: call.stack holds the
\* frames of the calls under way, call.pc the place in
\* calculateAdvancedArrowPath, call.visited the elements of allArrows the
\* filter has seen, call.list those it has kept
Frame(fn, arrow) == [fn |-> fn, arrow |-> arrow.id]

\* mutant: the callback asks for the visited connector's own path, a call
\* that is still under way when the filter goes on
stackAfterVisit_reenter(stack, arrow) ==
  Append(stack, Frame("calculateAdvancedArrowPath", arrow))

\* the stack after the filter callback has seen a connector: sides.find and
\* determineEdgeFromVector call nothing of CanvasUtils and have returned
stackAfterVisit(stack, arrow) == stack

\* the side and the edge of the getSideEdgeConnectionPoint call under way
CallSide ==
  IF call.pc = "source" THEN sides[FindSide(sides, call.arrow.sourceId)]
  ELSE sides[FindSide(sides, call.arrow.destinationId)]
CallEdge == IF call.pc = "source" THEN call.sourceEdge ELSE call.destEdge

pathCalled(arrow) ==
  /\ call = NoCall
  /\ call' = [NoCall EXCEPT !.fn = "calculateAdvancedArrowPath",
                            !.arrow = arrow, !.pc = "find",
                            !.stack = <<Frame("calculateAdvancedArrowPath", arrow)>>]
  /\ UNCHANGED <<sides, arrows, idCounter, canvasState, selectedTool, newArrowForEditing, fileVars, dragVars>>

\* sides.find twice; return [] when one is missing, else the two edges
sidesLookedUp ==
  /\ call.pc = "find"
  /\ call' =
       IF FindSide(sides, call.arrow.sourceId) = 0
          \/ FindSide(sides, call.arrow.destinationId) = 0
       THEN [call EXCEPT !.pc = "done", !.returned = TRUE, !.path = <<>>,
                         !.stack = <<>>]
       ELSE [call EXCEPT !.pc = "source",
                         !.sourceEdge = determineEdgeFromVector(
                           sides[FindSide(sides, call.arrow.sourceId)],
                           sides[FindSide(sides, call.arrow.destinationId)]),
                         !.destEdge = determineEdgeFromVector(
                           sides[FindSide(sides, call.arrow.destinationId)],
                           sides[FindSide(sides, call.arrow.sourceId)])]
  /\ UNCHANGED <<sides, arrows, idCounter, canvasState, selectedTool, newArrowForEditing, fileVars, dragVars>>

connectionPointCalled ==
  /\ call.pc \in {"source", "dest"}
  /\ Len(call.stack) = 1
  /\ call' = [call EXCEPT
                !.stack = Append(@, Frame("getSideEdgeConnectionPoint", call.arrow)),
                !.visited = 0, !.list = <<>>]
  /\ UNCHANGED <<sides, arrows, idCounter, canvasState, selectedTool, newArrowForEditing, fileVars, dragVars>>

\* the filter callback on the next element of allArrows
filterVisited ==
  /\ call.pc \in {"source", "dest"}
  /\ Len(call.stack) >= 2
  /\ call.visited < Len(arrows)
  /\ call' = [call EXCEPT
                !.visited = @ + 1,
                !.list = IF usesEdge(arrows[call.visited + 1], CallSide,
                                     CallEdge, sides)
                         THEN Append(@, arrows[call.visited + 1]) ELSE @,
                !.stack = stackAfterVisit(@, arrows[call.visited + 1])]
  /\ UNCHANGED <<sides, arrows, idCounter, canvasState, selectedTool, newArrowForEditing, fileVars, dragVars>>

\* sort, findIndex, getArrowEdgePoint: the point goes back to
\* calculateAdvancedArrowPath
pointReturned ==
  /\ call.pc \in {"source", "dest"}
  /\ Len(call.stack) = 2
  /\ call.visited = Len(arrows)
  /\ call' =
       IF call.pc = "source"
       THEN [call EXCEPT
               !.sourcePoint = pointAmong(CallSide, CallEdge, call.arrow,
                                 sortEdgeArrows(call.list, CallSide, CallEdge, sides)),
               !.pc = "dest", !.stack = SubSeq(@, 1, 1)]
       ELSE [call EXCEPT
               !.destPoint = pointAmong(CallSide, CallEdge, call.arrow,
                               sortEdgeArrows(call.list, CallSide, CallEdge, sides)),
               !.pc = "travel", !.stack = SubSeq(@, 1, 1)]
  /\ UNCHANGED <<sides, arrows, idCounter, canvasState, selectedTool, newArrowForEditing, fileVars, dragVars>>

\* calculateArrowPathWithTravel, return path
pathReturned ==
  /\ call.pc = "travel"
  /\ call' = [call EXCEPT
                !.path = calculateArrowPathWithTravel(call.sourcePoint,
                           call.destPoint, call.sourceEdge),
                !.returned = TRUE, !.pc = "done", !.stack = <<>>]
  /\ UNCHANGED <<sides, arrows, idCounter, canvasState, selectedTool, newArrowForEditing, fileVars, dragVars>>

\* the steps of a call under way
CallSteps ==
  \/ sidesLookedUp
  \/ connectionPointCalled
  \/ filterVisited
  \/ pointReturned
  \/ pathReturned

\* a flashcard opened from a file, its sides dragged, and paths computed
NextSteps ==
  \/ /\ call = NoCall
     /\ \E sideId \in SideIds, newPosition \in Positions :
          handleSideMove(sideId, newPosition)
  \/ \E i \in 1..Len(arrows) : pathCalled(arrows[i])
  \/ CallSteps
  \/ pathDrawn

\* a step of CallSteps can be taken (ENABLED <<CallSteps>>_vars, from the
\* guards of the steps: each step changes call)
CallStepEnabled ==
  \/ call.pc \in {"find", "travel"}
  \/ /\ call.pc \in {"source", "dest"}
     /\ \/ Len(call.stack) = 1
        \/ Len(call.stack) >= 2 /\ call.visited < Len(arrows)
        \/ Len(call.stack) = 2 /\ call.visited = Len(arrows)

\* the code runs to its end once called (one thread, no suspension point):
\* weak fairness of CallSteps, WF_vars(CallSteps) with its ENABLED written out
SpecSteps ==
  /\ InitRouting /\ [][NextSteps]_vars
  /\ ([]<>(~CallStepEnabled) \/ []<><<CallSteps>>_vars)

\* ----------------------------------------------------------------- drawing
canvasToScreen(canvasPos, cs) ==
  [x |-> Add(Mul(canvasPos.x, cs.zoom), cs.panOffset.x),
   y |-> Add(Mul(canvasPos.y, cs.zoom), cs.panOffset.y)]

\* FlashcardCanvas.calculateArrowPath: the path in screen coordinates
calculateArrowPath(arrow, allArrows, ss, cs) ==
  LET canvasPath == calculateAdvancedArrowPath(arrow, allArrows, ss)
  IN [n \in 1..Len(canvasPath) |-> canvasToScreen(canvasPath[n], cs)]

\* drawArrow: midIndex = Math.floor(path.length / 2), labelPos = path[midIndex]
\* (path is indexed from 0 in the code and from 1 here)
midIndexOf(path) == Len(path) \div 2
labelPosOf(path) == path[midIndexOf(path) + 1]

\* the toolbar's zoom buttons
onZoomIn ==
  /\ canvasState' =
       [canvasState EXCEPT
          !.zoom = NumMin(Num(5), Add(canvasState.zoom, Div(Num(1), Num(5))))]
  /\ canvasState' # canvasState
  /\ UNCHANGED <<sides, arrows, idCounter, call, selectedTool, newArrowForEditing, fileVars, dragVars>>

onZoomOut ==
  /\ canvasState' =
       [canvasState EXCEPT
          !.zoom = NumMax(Div(Num(1), Num(10)),
                          Sub(canvasState.zoom, Div(Num(1), Num(5))))]
  /\ canvasState' # canvasState
  /\ UNCHANGED <<sides, arrows, idCounter, call, selectedTool, newArrowForEditing, fileVars, dragVars>>

onZoomReset ==
  /\ canvasState.zoom # Num(1) \/ canvasState.panOffset # Point(0, 0)
  /\ canvasState' = [canvasState EXCEPT !.zoom = Num(1),
                                        !.panOffset = Point(0, 0)]
  /\ UNCHANGED <<sides, arrows, idCounter, call, selectedTool, newArrowForEditing, fileVars, dragVars>>

\* the mouse moved by (deltaX, deltaY) while panning
PanDeltas == {Pos(60, 0), Pos(0, -30)}

onPanChange(delta) ==
  LET newPanOffset == [x |-> Add(canvasState.panOffset.x, Num(delta.x)),
                       y |-> Add(canvasState.panOffset.y, Num(delta.y))]
  IN /\ Le(NumAbs(newPanOffset.x), Num(MaxPan))
     /\ Le(NumAbs(newPanOffset.y), Num(MaxPan))
     /\ canvasState' = [canvasState EXCEPT !.panOffset = newPanOffset]
     /\ UNCHANGED <<sides, arrows, idCounter, call, selectedTool, newArrowForEditing, fileVars, dragVars>>

\* the mouse wheel turned over the canvas
\* mutant: the zoom is not clamped
newZoomOf_unclamped(zoom, zoomFactor) == Mul(zoom, zoomFactor)

\* zoomFactor = deltaY > 0 ? 0.9 : 1.1
zoomFactorOf(deltaY) ==
  IF deltaY > 0 THEN Div(Num(9), Num(10)) ELSE Div(Num(11), Num(10))

\* newZoom = Math.max(0.1, Math.min(5, zoom * zoomFactor))
newZoomOf(zoom, zoomFactor) ==
  NumMax(Div(Num(1), Num(10)), NumMin(Num(5), Mul(zoom, zoomFactor)))

\* world = (mouse - panOffset) / zoom; newPanOffset = mouse - world * newZoom
panAfterZoom(mouse, panOffset, zoom, newZoom) ==
  Sub(mouse, Mul(Div(Sub(mouse, panOffset), zoom), newZoom))

wheelZoomed(newZoom, newPanOffset) ==
  /\ Le(NumAbs(newPanOffset.x), Num(MaxPan))
  /\ Le(NumAbs(newPanOffset.y), Num(MaxPan))
  /\ canvasState' = [canvasState EXCEPT !.zoom = newZoom,
                                        !.panOffset = newPanOffset]
  /\ canvasState' # canvasState
  /\ UNCHANGED <<sides, arrows, idCounter, call, selectedTool, newArrowForEditing, fileVars, dragVars>>

wheelTo(mouse, newZoom) ==
  wheelZoomed(newZoom,
              [x |-> panAfterZoom(Num(mouse.x), canvasState.panOffset.x,
                                  canvasState.zoom, newZoom),
               y |-> panAfterZoom(Num(mouse.y), canvasState.panOffset.y,
                                  canvasState.zoom, newZoom)])

\* mouse: clientX - rect.left, clientY - rect.top
handleCanvasWheel(deltaY, mouse) ==
  wheelTo(mouse, newZoomOf(canvasState.zoom, zoomFactorOf(deltaY)))

\* where the mouse is when the wheel turns (the canvas's corner: the zoom
\* does not depend on the place), and how the wheel turns
WheelPoints == {Pos(0, 0)}
WheelDeltas == {-100, 100}

\* the canvas zoomed with the wheel and with the toolbar's buttons
NextZoom ==
  \/ \E deltaY \in WheelDeltas, mouse \in WheelPoints :
       handleCanvasWheel(deltaY, mouse)
  \/ onZoomIn
  \/ onZoomOut
  \/ onZoomReset

SpecZoom == Init /\ [][NextZoom]_vars

\* a flashcard opened from a file and looked at: zoomed and panned
NextDraw ==
  \/ onZoomIn
  \/ onZoomOut
  \/ onZoomReset
  \/ \E delta \in PanDeltas : onPanChange(delta)

SpecDraw == InitRouting /\ [][NextDraw]_vars

\* ------------------------------------------------------------ grid snapping
\* Math.round: the integer nearest to a, a tie going up
MathRound(a) ==
  IF a.e >= 0 THEN a
  ELSE IF -a.e >= 29 THEN Num(0)
  ELSE Num((a.m + 2 ^ (-a.e - 1)) \div (2 ^ (-a.e)))

\* mutant: the position is returned as it is
snapToGrid_unsnapped(position, gridSize) == position

\* CanvasUtils.snapToGrid
snapToGrid(position, gridSize) ==
  [x |-> Mul(MathRound(Div(position.x, Num(gridSize))), Num(gridSize)),
   y |-> Mul(MathRound(Div(position.y, Num(gridSize))), Num(gridSize))]

\* FlashcardCanvas.getCanvasPosition; mouse: clientX - rect.left,
\* clientY - rect.top
getCanvasPosition(mouse, cs) ==
  [x |-> Div(Sub(Num(mouse.x), cs.panOffset.x), cs.zoom),
   y |-> Div(Sub(Num(mouse.y), cs.panOffset.y), cs.zoom)]

\* CanvasUtils.isPointInSide and findSideAtPosition for a point the mouse
\* is at
mouseInSide(point, side) ==
  /\ Ge(point.x, Num(side.position.x))
  /\ Le(point.x, Num(side.position.x
                       + (IF side.width = 0 THEN 100 ELSE side.width)))
  /\ Ge(point.y, Num(side.position.y))
  /\ Le(point.y, Num(side.position.y
                       + (IF side.height = 0 THEN 60 ELSE side.height)))

sideUnderMouse(point, ss) ==
  IF \E i \in 1..Len(ss) : mouseInSide(point, ss[i])
  THEN CHOOSE i \in 1..Len(ss) :
         /\ mouseInSide(point, ss[i])
         /\ \A k \in 1..(i - 1) : ~mouseInSide(point, ss[k])
  ELSE 0

\* the integer a coordinate of a side holds (a snapped coordinate is one)
IntegerOf(a) ==
  IF a.e >= 0 THEN a.m * (2 ^ a.e) ELSE a.m \div (2 ^ (-a.e))

PositionOf(point) == Pos(IntegerOf(point.x), IntegerOf(point.y))

\* the new side is centred on the click: canvasPos - SIDE_WIDTH / 2,
\* canvasPos - SIDE_HEIGHT / 2
centeredPos(canvasPos) ==
  [x |-> Sub(canvasPos.x, Num(60)), y |-> Sub(canvasPos.y, Num(40))]

snappedPos(position, cs) ==
  IF cs.gridSnapEnabled THEN snapToGrid(position, cs.gridSize) ELSE position

\* FlashcardCanvas.handleCanvasClick with the add-side and the select tool
\* (no arrows on the canvas)
clickAt(canvasPos, clickedSide) ==
  IF selectedTool = "add-side" /\ clickedSide = 0
  THEN handleCanvasClick(PositionOf(snappedPos(centeredPos(canvasPos),
                                               canvasState)))
  ELSE IF selectedTool = "select"
  THEN handleSideSelect(IF clickedSide # 0 THEN sides[clickedSide].id ELSE 0,
                        FALSE)
  ELSE UNCHANGED vars

canvasClicked(mouse) ==
  /\ selectedTool = "add-side" => Len(sides) < MaxSnapped
  /\ clickAt(getCanvasPosition(mouse, canvasState),
             sideUnderMouse(getCanvasPosition(mouse, canvasState), sides))

\* the mouse goes down with the select tool on a selected side: a drag starts
dragStarted(canvasPos, clickedSide) ==
  /\ selectedTool = "select"
  /\ clickedSide # 0
  /\ Includes(canvasState.selectedSideIds, sides[clickedSide].id)
  /\ isDragging' = TRUE
  /\ dragSideId' = sides[clickedSide].id
  /\ dragOffset' = [x |-> Sub(canvasPos.x, Num(sides[clickedSide].position.x)),
                    y |-> Sub(canvasPos.y, Num(sides[clickedSide].position.y))]
  /\ UNCHANGED <<sides, arrows, idCounter, canvasState, call, selectedTool,
                 newArrowForEditing, fileVars>>

handleCanvasMouseDown(mouse) ==
  dragStarted(getCanvasPosition(mouse, canvasState),
              sideUnderMouse(getCanvasPosition(mouse, canvasState), sides))

\* where the dragged side goes when the mouse is at canvasPos
draggedTo(canvasPos, cs) ==
  snappedPos([x |-> Sub(canvasPos.x, dragOffset.x),
              y |-> Sub(canvasPos.y, dragOffset.y)], cs)

handleCanvasMouseMove(mouse) ==
  /\ isDragging /\ dragSideId # 0
  /\ FindSide(sides, dragSideId) # 0
  /\ handleSideMove(dragSideId,
                    PositionOf(draggedTo(getCanvasPosition(mouse, canvasState),
                                         canvasState)))

handleCanvasMouseUp ==
  /\ isDragging
  /\ isDragging' = FALSE /\ dragSideId' = 0
  /\ dragOffset' = [x |-> Num(0), y |-> Num(0)]
  /\ UNCHANGED <<sides, arrows, idCounter, canvasState, call, selectedTool,
                 newArrowForEditing, fileVars>>

\* where the mouse is on the canvas element, the grid sizes, and the zooms
\* the toolbar gives the canvas with one press
SnapPoints == {Pos(70, 50), Pos(30, 10)}
GridSizes == {20, 25}
ZoomLevels == {Num(1), NumMin(Num(5), Add(Num(1), Div(Num(1), Num(5)))),
               NumMax(Div(Num(1), Num(10)), Sub(Num(1), Div(Num(1), Num(5))))}

\* a new flashcard on a canvas with grid snapping on
InitSnap ==
  /\ sides = <<>> /\ arrows = <<>> /\ idCounter = 0
  /\ \E gridSize \in GridSizes, zoom \in ZoomLevels :
       canvasState = [zoom |-> zoom, panOffset |-> Point(0, 0),
                      selectedSideIds |-> <<>>, selectedArrowIds |-> <<>>,
                      isCreatingArrow |-> FALSE, arrowSourceId |-> 0,
                      gridSnapEnabled |-> TRUE, gridSize |-> gridSize]
  /\ NotDragging
  /\ selectedTool = "select" /\ newArrowForEditing = 0
  /\ NothingOpen
  /\ call = NoCall

\* sides added with the add-side tool and dragged with the select tool
NextSnap ==
  \/ \E tool \in {"add-side", "select"} : handleToolSelect(tool)
  \/ \E mouse \in SnapPoints : canvasClicked(mouse)
  \/ \E mouse \in SnapPoints : handleCanvasMouseDown(mouse)
  \/ \E mouse \in SnapPoints : handleCanvasMouseMove(mouse)
  \/ handleCanvasMouseUp

SpecSnap == InitSnap /\ [][NextSnap]_vars

\* ------------------------------------------------------------------ labels
\* drawArrow: the rectangle filled behind the label. measureText is the
\* browser's; an empty label is shown as two spaces, narrower than the
\* minimum width of 24, so labelWidth is 24 * zoom
labelRectOf(labelPos, cs) ==
  [x      |-> Sub(labelPos.x, Div(Mul(Num(24), cs.zoom), Num(2))),
   y      |-> Sub(labelPos.y, Div(Mul(Num(24), cs.zoom), Num(2))),
   width  |-> Mul(Num(24), cs.zoom),
   height |-> Mul(Num(24), cs.zoom)]

\* where a drag can put a side of a flashcard with three sides in a row
LabelPositions == Positions \cup {Pos(160, 0)}

\* a flashcard made in the editor: three sides, an arrow from the first to
\* the second
InitLabels ==
  /\ sides = <<Side(101, 0, 0, 120, 80), Side(102, 600, 0, 120, 80),
               Side(103, 0, 300, 120, 80)>>
  /\ arrows = <<Arrow(201, 101, 102)>>
  /\ idCounter = 0
  /\ canvasState = ResetCanvas
  /\ NotDragging
  /\ selectedTool = "select" /\ newArrowForEditing = 0
  /\ NothingOpen
  /\ call = NoCall

NextLabels ==
  \/ \E sideId \in SideIds, newPosition \in LabelPositions :
       handleSideMove(sideId, newPosition)
  \/ \E destinationId \in SideIds \ {sides[1].id} :
       (FindArrow(arrows, sides[1].id, destinationId) = 0
            /\ handleArrowCreate(sides[1].id, destinationId))
  \/ \E arrowId \in ArrowIds : handleArrowDelete({arrowId})

SpecLabels == InitLabels /\ [][NextLabels]_vars

\* ============================================================== properties

EndIds == SideIds \cup {999}    \* 999: an id no side carries
Dangling(arrow) ==
  arrow.sourceId \notin SideIds \/ arrow.destinationId \notin SideIds
PathOf(arrow) == calculateAdvancedArrowPath(arrow, arrows, sides)

\* C1: calculateAdvancedArrowPath returns the empty path for every connector
\* whose sourceId or destinationId is the id of no side of the list, for the
\* connectors of the list and for any other connector, whatever the other
\* sides and arrows are.
C1_MissingSideEmptyPath ==
  /\ \A i \in 1..Len(arrows) :
       Dangling(arrows[i]) => PathOf(arrows[i]) = <<>>
  /\ \A s \in EndIds, d \in EndIds :
       Dangling(Arrow(0, s, d)) => PathOf(Arrow(0, s, d)) = <<>>

\* C1 witness: a list with a connector to a missing side (empty path) next to
\* a connector between two sides (a path)
C1_Witness ==
  /\ \E i \in 1..Len(arrows) :
       /\ arrows[i].sourceId \in SideIds
       /\ arrows[i].destinationId \notin SideIds
       /\ PathOf(arrows[i]) = <<>>
  /\ \E i \in 1..Len(arrows) : ~Dangling(arrows[i]) /\ Len(PathOf(arrows[i])) = 4

\* the value of a number in units of 1/32, rounded down
Units(a) ==
  IF a.e + 5 >= 0 THEN a.m * 2^(a.e + 5) ELSE a.m \div 2^(-(a.e + 5))

\* length of the segment from p to q of an orthogonal path, in units of 1/32
SegmentUnits(p, q) ==
  Abs(Units(q.x) - Units(p.x)) + Abs(Units(q.y) - Units(p.y))

\* squared distance of the two points of the call, in units of 1/32
CallDistanceSq ==
  LET dx == Units(call.destPoint.x) - Units(call.sourcePoint.x)
      dy == Units(call.destPoint.y) - Units(call.sourcePoint.y)
  IN dx * dx + dy * dy

\* what rounding may add to or take from 5 times a length t (units of 1/32):
\* eight units in the last place of the number format, and the rounding down
\* of Units
RoundingSlack(t) == t \div 2^(Precision - 3) + 5

TravelReturned ==
  call.fn = "calculateArrowPathWithTravel" /\ call.returned

\* C2: for every pair of points and every source edge, the first segment of
\* the path calculateArrowPathWithTravel returns has length
\* max(0.2 * distance, 40) up to the rounding of the arithmetic (5 times the
\* length is within RoundingSlack of max(distance, 200)), coincident points
\* included, and it is never below 40 less the same slack.
C2_FirstSegmentMinTravel ==
  TravelReturned =>
    LET t     == 5 * SegmentUnits(call.path[1], call.path[2])
        slack == RoundingSlack(t)
        goal  == IF CallDistanceSq > 6400 * 6400 THEN CallDistanceSq
                 ELSE 6400 * 6400
    IN /\ Len(call.path) = 4
       /\ (t - slack) * (t - slack) <= goal
       /\ goal <= (t + slack) * (t + slack)
       /\ t + slack >= 6400

\* C2 witness: a call with coincident points has returned a path whose first
\* segment is 40 long
C2_Witness ==
  /\ TravelReturned
  /\ call.sourcePoint = call.destPoint
  /\ Len(call.path) = 4
  /\ SegmentUnits(call.path[1], call.path[2]) = 40 * 32

\* the connectors among which an edge of a side of the flashcard is divided
EdgeArrows(side, edge) == edgeArrowsOf(side, edge, arrows, sides)

ConnectionPoint(side, edge, arrow) ==
  getSideEdgeConnectionPoint(side, edge, arrow, arrows, sides)

\* length of an edge of a side (width || 100, height || 60)
EdgeLength(side, edge) ==
  IF edge \in {"top", "bottom"}
  THEN (IF side.width = 0 THEN 100 ELSE side.width)
  ELSE (IF side.height = 0 THEN 60 ELSE side.height)

\* how far along the edge, from the edge's start, a point lies (units of 1/32)
OffsetUnits(side, edge, p) ==
  IF edge \in {"top", "bottom"} THEN Units(p.x) - 32 * side.position.x
  ELSE Units(p.y) - 32 * side.position.y

\* C3: when two or more connectors share one edge of a side, their connection
\* points are pairwise distinct and each lies between 10% and 90% of the
\* edge's length from the edge's start, up to the rounding of the arithmetic
\* (10 times the offset is within RoundingSlack of the edge's length and of 9
\* times that length).
C3_SharedEdgeSpread ==
  \A i \in 1..Len(sides), edge \in Edges :
    LET side == sides[i]
        list == EdgeArrows(side, edge)
        len  == 32 * EdgeLength(side, edge)
        point == [j \in 1..Len(list) |->
                    ConnectionPoint(side, edge, list[j])]
    IN Len(list) >= 2 =>
         /\ \A j \in 1..Len(list), k \in 1..Len(list) :
              j < k => point[j] # point[k]
         /\ \A j \in 1..Len(list) :
              LET t == 10 * OffsetUnits(side, edge, point[j])
              IN /\ t + RoundingSlack(10 * len) >= len
                 /\ t - RoundingSlack(10 * len) <= 9 * len

\* C3 witness: three connectors, inbound and outbound, share one edge of a
\* side and are given three different points
C3_Witness ==
  \E i \in 1..Len(sides), edge \in Edges :
    LET side == sides[i]
        list == EdgeArrows(side, edge)
    IN /\ Len(list) = 3
       /\ \E j \in 1..3 : list[j].sourceId = side.id
       /\ \E j \in 1..3 : list[j].destinationId = side.id
       /\ Cardinality({ConnectionPoint(side, edge, list[j]) : j \in 1..3}) = 3

Horizontal(p, q) == p.y = q.y
Vertical(p, q)   == p.x = q.x

\* C4: every non-empty path of a connector of the flashcard has exactly 4
\* points, and its three segments are horizontal, vertical, horizontal or
\* vertical, horizontal, vertical.
C4_OrthogonalFourPoints ==
  \A i \in 1..Len(arrows) :
    LET path == PathOf(arrows[i])
    IN path # <<>> =>
         /\ Len(path) = 4
         /\ \/ /\ Horizontal(path[1], path[2])
               /\ Vertical(path[2], path[3])
               /\ Horizontal(path[3], path[4])
            \/ /\ Vertical(path[1], path[2])
               /\ Horizontal(path[2], path[3])
               /\ Vertical(path[3], path[4])

\* C4 witness: one connector leaves a side edge and one a bottom or top
\* edge; both paths have four different points, the first turning from
\* horizontal to vertical to horizontal and the second the other way
C4_Witness ==
  \E i \in 1..Len(arrows), j \in 1..Len(arrows) :
    LET p == PathOf(arrows[i])
        q == PathOf(arrows[j])
    IN /\ Len(p) = 4 /\ Len(q) = 4
       /\ Cardinality({p[1], p[2], p[3], p[4]}) = 4
       /\ Cardinality({q[1], q[2], q[3], q[4]}) = 4
       /\ Horizontal(p[1], p[2]) /\ Vertical(p[2], p[3])
       /\ Horizontal(p[3], p[4])
       /\ Vertical(q[1], q[2]) /\ Horizontal(q[2], q[3])
       /\ Vertical(q[3], q[4])

EdgeReturned == call.fn = "determineEdgeFromVector" /\ call.returned

\* twice the centre of a side, exact
CenterX2(side) == 2 * side.position.x + EdgeLength(side, "top")
CenterY2(side) == 2 * side.position.y + EdgeLength(side, "left")

\* the edges of fromSide that the ray from its centre toward the centre of
\* toSide crosses, exact (two edges when the ray leaves through a corner)
CrossedEdges(fromSide, toSide) ==
  LET dx == CenterX2(toSide) - CenterX2(fromSide)
      dy == CenterY2(toSide) - CenterY2(fromSide)
      w  == EdgeLength(fromSide, "top")
      h  == EdgeLength(fromSide, "left")
  IN {e \in Edges :
        \/ e = "right"  /\ dx > 0 /\ Abs(dy) * w <= h * dx
        \/ e = "left"   /\ dx < 0 /\ Abs(dy) * w <= h * (-dx)
        \/ e = "bottom" /\ dy > 0 /\ Abs(dx) * h <= w * dy
        \/ e = "top"    /\ dy < 0 /\ Abs(dx) * h <= w * (-dy)}

\* the first of a set of edges in the order right, left, bottom, top
FirstByPriority(es) ==
  EdgeOrder[CHOOSE i \in 1..4 :
              EdgeOrder[i] \in es /\ \A j \in 1..(i - 1) : EdgeOrder[j] \notin es]

\* C5: for two sides with distinct centres determineEdgeFromVector returns
\* an edge of the first side that the ray from its centre toward the other
\* centre crosses, and when the ray leaves through a corner, the first of the
\* two edges in the order right, left, bottom, top.
C5_EdgeCrossedByRay ==
  (/\ EdgeReturned
   /\ \/ CenterX2(call.fromSide) # CenterX2(call.toSide)
      \/ CenterY2(call.fromSide) # CenterY2(call.toSide))
  => /\ call.edge \in CrossedEdges(call.fromSide, call.toSide)
     /\ call.edge = FirstByPriority(CrossedEdges(call.fromSide, call.toSide))

\* C6: when the centre of fromSide is strictly left of the centre of toSide
\* and the two centres have the same y, determineEdgeFromVector(fromSide,
\* toSide) is right; with the two sides exchanged it is left.
C6_AlignedLeftRight ==
  (EdgeReturned /\ CenterY2(call.fromSide) = CenterY2(call.toSide)) =>
    /\ CenterX2(call.fromSide) < CenterX2(call.toSide) => call.edge = "right"
    /\ CenterX2(call.fromSide) > CenterX2(call.toSide) => call.edge = "left"

\* C6 witness: the call for a side right of a side of another size, centres
\* at the same height, has returned left
C6_Witness ==
  /\ EdgeReturned
  /\ CenterY2(call.fromSide) = CenterY2(call.toSide)
  /\ CenterX2(call.fromSide) > CenterX2(call.toSide)
  /\ call.fromSide.width # call.toSide.width
  /\ call.fromSide.position.y # call.toSide.position.y
  /\ call.edge = "left"

\* two sides whose rectangles have no point in common
Apart(a, b) ==
  \/ a.position.x + EdgeLength(a, "top") < b.position.x
  \/ b.position.x + EdgeLength(b, "top") < a.position.x
  \/ a.position.y + EdgeLength(a, "left") < b.position.y
  \/ b.position.y + EdgeLength(b, "left") < a.position.y

\* the centre of third lies on the straight line between the centres of
\* from and to, strictly between them, and third is apart from both
OnStraightRoute(from, to, third) ==
  LET ux == CenterX2(to) - CenterX2(from)
      uy == CenterY2(to) - CenterY2(from)
      vx == CenterX2(third) - CenterX2(from)
      vy == CenterY2(third) - CenterY2(from)
  IN /\ ux * vy = uy * vx
     /\ ux * vx + uy * vy > 0
     /\ ux * vx + uy * vy < ux * ux + uy * uy
     /\ Apart(from, third) /\ Apart(to, third)

Least(m, n)    == IF m < n THEN m ELSE n
Greatest(m, n) == IF m < n THEN n ELSE m

\* the segment from p to q of an orthogonal path passes through the inside
\* of the rectangle of a side
SegmentCrosses(p, q, side) ==
  /\ Least(Units(p.x), Units(q.x))
       < 32 * (side.position.x + EdgeLength(side, "top"))
  /\ Greatest(Units(p.x), Units(q.x)) > 32 * side.position.x
  /\ Least(Units(p.y), Units(q.y))
       < 32 * (side.position.y + EdgeLength(side, "left"))
  /\ Greatest(Units(p.y), Units(q.y)) > 32 * side.position.y

PathCrosses(path, side) ==
  \E n \in 1..(Len(path) - 1) : SegmentCrosses(path[n], path[n + 1], side)

\* C7: when a third side lies on the straight route between the two sides of
\* a connector, apart from both, the connector's path does not pass through
\* the rectangle of the third side.
C7_PathAvoidsThirdSide ==
  \A i \in 1..Len(arrows), k \in 1..Len(sides) :
    LET si == FindSide(sides, arrows[i].sourceId)
        di == FindSide(sides, arrows[i].destinationId)
    IN (si # 0 /\ di # 0 /\ OnStraightRoute(sides[si], sides[di], sides[k]))
         => ~PathCrosses(PathOf(arrows[i]), sides[k])

\* the path of a connector as drawn
ScreenPathOf(arrow) == calculateArrowPath(arrow, arrows, sides, canvasState)

\* length of an orthogonal path from its first point to its n-th (1/32)
RECURSIVE LengthUpTo(_, _)
LengthUpTo(path, n) ==
  IF n <= 1 THEN 0
  ELSE LengthUpTo(path, n - 1) + SegmentUnits(path[n - 1], path[n])

\* the point of the path at which the label is drawn and edited
LabelIndexOf(path) ==
  CHOOSE n \in 1..Len(path) :
    path[n] = labelPosOf(path) /\ \A k \in 1..(n - 1) : path[k] # path[n]

\* C8: for every connector with a non-empty path, the label is placed on
\* the path between 30% and 70% of the path's length, measured along the
\* path as drawn (up to the rounding of the arithmetic).
C8_LabelWithinMiddle ==
  \A i \in 1..Len(arrows) :
    LET path  == ScreenPathOf(arrows[i])
        along == LengthUpTo(path, LabelIndexOf(path))
        total == LengthUpTo(path, Len(path))
    IN path # <<>> =>
         /\ 10 * along + RoundingSlack(10 * total) >= 3 * total
         /\ 10 * along - RoundingSlack(10 * total) <= 7 * total

\* the connectors of an edge in the order their points are allocated in
SortedEdgeArrows(side, edge) ==
  sortEdgeArrows(EdgeArrows(side, edge), side, edge, sides)

\* the side at the other end of a connector of a side
OtherSide(arrow, side) ==
  IF arrow.sourceId = side.id THEN sides[FindSide(sides, arrow.destinationId)]
  ELSE sides[FindSide(sides, arrow.sourceId)]

\* the other ends of two connectors are within 5 of each other in the
\* coordinate the edge is sorted by
WithinTolerance(a, b, side, edge) ==
  IF edge \in {"top", "bottom"}
  THEN Abs(CenterX2(OtherSide(a, side)) - CenterX2(OtherSide(b, side))) <= 10
  ELSE Abs(CenterY2(OtherSide(a, side)) - CenterY2(OtherSide(b, side))) <= 10

\* C9: of two connectors on one edge of a side whose other ends are within
\* the 5px tolerance, the one that enters the side is allocated a lower
\* index than the one that leaves it, whatever their order in the arrow list.
C9_DestinationBeforeSource ==
  \A i \in 1..Len(sides), edge \in Edges :
    LET side == sides[i]
        list == SortedEdgeArrows(side, edge)
    IN \A j \in 1..Len(list), k \in 1..Len(list) :
         (/\ list[j].destinationId = side.id /\ list[j].sourceId # side.id
          /\ list[k].sourceId = side.id /\ list[k].destinationId # side.id
          /\ WithinTolerance(list[j], list[k], side, edge))
         => j < k

\* the connectors (places in the list aa) with both sides present that leave
\* side on this edge or enter side on this edge, the edges being those
\* calculateAdvancedArrowPath computes for the connector
IncidentOn(side, edge, aa) ==
  {n \in 1..Len(aa) :
     LET si == FindSide(sides, aa[n].sourceId)
         di == FindSide(sides, aa[n].destinationId)
     IN /\ si # 0 /\ di # 0
        /\ \/ /\ aa[n].sourceId = side.id
              /\ determineEdgeFromVector(sides[si], sides[di]) = edge
           \/ /\ aa[n].destinationId = side.id
              /\ determineEdgeFromVector(sides[di], sides[si]) = edge}

\* the points of an edge divided among n connectors
EdgePoints(side, edge, n) ==
  {getArrowEdgePoint(side, edge, k, n) : k \in 0..(n - 1)}

\* the connectors of IncidentOn, and no others, share the points of the edge
EdgeDividedAmongIncident ==
  \A i \in 1..Len(sides), edge \in Edges :
    LET inc == IncidentOn(sides[i], edge, arrows)
    IN {ConnectionPoint(sides[i], edge, arrows[n]) : n \in inc}
         = EdgePoints(sides[i], edge, Cardinality(inc))

\* sorted index of a connector on an edge, for the arrow list aa
SortedIndex(side, edge, arrow, aa) ==
  findArrowIndex(sortEdgeArrows(edgeArrowsOf(side, edge, aa, sides),
                                side, edge, sides), arrow.id)

\* the step appends a connector that enters side on this edge
InboundAdded(side, edge) ==
  /\ sides' = sides
  /\ Len(arrows') = Len(arrows) + 1
  /\ SubSeq(arrows', 1, Len(arrows)) = arrows
  /\ arrows'[Len(arrows')].destinationId = side.id
  /\ arrows'[Len(arrows')].sourceId # side.id
  /\ Len(arrows') \in IncidentOn(side, edge, arrows')

\* the connector at place n keeps its point on the edge in the step
KeepsPoint(side, edge, n) ==
  getSideEdgeConnectionPoint(side, edge, arrows[n], arrows', sides)
    = getSideEdgeConnectionPoint(side, edge, arrows[n], arrows, sides)

\* C10 as stated: an edge is divided among exactly the incident connectors
\* of both directions, and adding an inbound connector on an edge changes the
\* position of every outbound connector already on that edge.
C10_InboundMovesOutbound ==
  /\ []EdgeDividedAmongIncident
  /\ [][\A i \in 1..Len(sides), edge \in Edges :
          InboundAdded(sides[i], edge) =>
            \A n \in IncidentOn(sides[i], edge, arrows) :
              arrows[n].sourceId = sides[i].id => ~KeepsPoint(sides[i], edge, n)
       ]_vars

\* C10 amended: an edge is divided among exactly the incident connectors of
\* both directions, and adding an inbound connector on an edge divides it
\* among one more connector: a connector already on the edge keeps its point
\* exactly when there were two or more and it stays first or stays last in
\* the sorted order.
C10_InboundJoinsEdge ==
  /\ []EdgeDividedAmongIncident
  /\ [][\A i \in 1..Len(sides), edge \in Edges :
          InboundAdded(sides[i], edge) =>
            LET inc == IncidentOn(sides[i], edge, arrows)
                N   == Cardinality(inc)
            IN /\ Cardinality(IncidentOn(sides[i], edge, arrows')) = N + 1
               /\ \A n \in inc :
                    KeepsPoint(sides[i], edge, n) <=>
                      /\ N >= 2
                      /\ LET old == SortedIndex(sides[i], edge, arrows[n], arrows)
                             new == SortedIndex(sides[i], edge, arrows[n], arrows')
                         IN \/ old = 0 /\ new = 0
                            \/ old = N - 1 /\ new = N
       ]_vars

\* C10 witness: a connector was added that enters a side on an edge two
\* connectors already left it on, and sorts between them: the edge holds
\* three points, the outer two those of the connectors that leave
C10_Witness ==
  /\ idCounter >= 1
  /\ Len(arrows) = 3
  /\ \E i \in 1..Len(sides), edge \in Edges :
       /\ IncidentOn(sides[i], edge, arrows) = {1, 2, 3}
       /\ arrows[1].sourceId = sides[i].id /\ arrows[2].sourceId = sides[i].id
       /\ arrows[3].destinationId = sides[i].id /\ arrows[3].id = idCounter
       /\ SortedIndex(sides[i], edge, arrows[3], arrows) = 1

\* ten times the offset t of a point along an edge is at the given tenth of
\* the edge's length len, up to the rounding of the arithmetic (units of 1/32)
AtTenth(t, tenth, len) ==
  /\ 10 * t + RoundingSlack(10 * len) >= tenth * len
  /\ 10 * t - RoundingSlack(10 * len) <= tenth * len

\* C11: on every edge of a side, the connector of sorted index 0 is placed at
\* 10% of the edge's length from the edge's start on a top or left edge and
\* at 90% on a bottom or right edge, the connector of the last index at the
\* opposite end (90%, 10%), and a sole connector at the edge's midpoint (up
\* to the rounding of the arithmetic).
C11_IndexZeroLowOnTopLeft ==
  \A i \in 1..Len(sides), edge \in Edges :
    LET side  == sides[i]
        list  == SortedEdgeArrows(side, edge)
        N     == Len(list)
        len   == 32 * EdgeLength(side, edge)
        first == OffsetUnits(side, edge, ConnectionPoint(side, edge, list[1]))
        last  == OffsetUnits(side, edge, ConnectionPoint(side, edge, list[N]))
    IN /\ N = 1 => AtTenth(first, 5, len)
       /\ (N >= 2 /\ edge \in {"top", "left"}) =>
            AtTenth(first, 1, len) /\ AtTenth(last, 9, len)
       /\ (N >= 2 /\ edge \in {"bottom", "right"}) =>
            AtTenth(first, 9, len) /\ AtTenth(last, 1, len)

\* C11 witness: a left or top edge and a right or bottom edge each shared by
\* two or more connectors, index 0 below the last index on the first and
\* above it on the second, and an edge with a sole connector
C11_Witness ==
  /\ \E i \in 1..Len(sides), edge \in {"top", "left"} :
       LET list == SortedEdgeArrows(sides[i], edge)
       IN /\ Len(list) >= 2
          /\ OffsetUnits(sides[i], edge, ConnectionPoint(sides[i], edge, list[1]))
               < OffsetUnits(sides[i], edge,
                             ConnectionPoint(sides[i], edge, list[Len(list)]))
  /\ \E i \in 1..Len(sides), edge \in {"bottom", "right"} :
       LET list == SortedEdgeArrows(sides[i], edge)
       IN /\ Len(list) >= 2
          /\ OffsetUnits(sides[i], edge, ConnectionPoint(sides[i], edge, list[1]))
               > OffsetUnits(sides[i], edge,
                             ConnectionPoint(sides[i], edge, list[Len(list)]))
  /\ \E i \in 1..Len(sides), edge \in Edges :
       Len(SortedEdgeArrows(sides[i], edge)) = 1

\* C12: in the path calculateArrowPathWithTravel returns, the first leg
\* starts at the source point, is horizontal with increasing x for a right
\* source edge and decreasing x for a left one, vertical with increasing y for
\* a bottom source edge and decreasing y for a top one; the second corner has
\* the destination's y for a left or right source edge and the destination's
\* x for a top or bottom one.
C12_FirstLegLeavesSourceEdge ==
  TravelReturned =>
    LET path == call.path
    IN /\ Len(path) = 4
       /\ path[1] = call.sourcePoint /\ path[4] = call.destPoint
       /\ call.sourceEdge = "right" =>
            Horizontal(path[1], path[2]) /\ Gt(path[2].x, path[1].x)
       /\ call.sourceEdge = "left" =>
            Horizontal(path[1], path[2]) /\ Lt(path[2].x, path[1].x)
       /\ call.sourceEdge = "bottom" =>
            Vertical(path[1], path[2]) /\ Gt(path[2].y, path[1].y)
       /\ call.sourceEdge = "top" =>
            Vertical(path[1], path[2]) /\ Lt(path[2].y, path[1].y)
       /\ call.sourceEdge \in {"left", "right"} => path[3].y = call.destPoint.y
       /\ call.sourceEdge \in {"top", "bottom"} => path[3].x = call.destPoint.x

\* C12 witness: a call with a left source edge and a destination to the
\* right of and below the source point has returned: the first leg goes left,
\* away from the destination, and the second corner is at the destination's y
C12_Witness ==
  /\ TravelReturned
  /\ call.sourceEdge = "left"
  /\ Gt(call.destPoint.x, call.sourcePoint.x)
  /\ Gt(call.destPoint.y, call.sourcePoint.y)
  /\ Lt(call.path[2].x, call.sourcePoint.x)
  /\ call.path[3].y = call.destPoint.y
  /\ call.path[3].y # call.path[2].y

\* the point p lies on the boundary of a side, on the given edge
OnEdge(p, side, edge) ==
  LET left   == Num(side.position.x)
      right  == Num(side.position.x + EdgeLength(side, "top"))
      top    == Num(side.position.y)
      bottom == Num(side.position.y + EdgeLength(side, "left"))
  IN IF edge \in {"top", "bottom"}
     THEN /\ p.y = (IF edge = "top" THEN top ELSE bottom)
          /\ Le(left, p.x) /\ Le(p.x, right)
     ELSE /\ p.x = (IF edge = "left" THEN left ELSE right)
          /\ Le(top, p.y) /\ Le(p.y, bottom)

\* the edges calculateAdvancedArrowPath selects for a connector
SourceEdgeOf(arrow) ==
  determineEdgeFromVector(sides[FindSide(sides, arrow.sourceId)],
                          sides[FindSide(sides, arrow.destinationId)])
DestEdgeOf(arrow) ==
  determineEdgeFromVector(sides[FindSide(sides, arrow.destinationId)],
                          sides[FindSide(sides, arrow.sourceId)])

\* C13: for every connector of the list whose two sides are present, the
\* first point of its path lies on the boundary of the source side, on the
\* selected source edge, and the last point on the boundary of the
\* destination side, on the selected destination edge.
C13_EndpointsOnSelectedEdges ==
  \A i \in 1..Len(arrows) :
    ~Dangling(arrows[i]) =>
      LET path == PathOf(arrows[i])
          src  == sides[FindSide(sides, arrows[i].sourceId)]
          dst  == sides[FindSide(sides, arrows[i].destinationId)]
      IN /\ Len(path) = 4
         /\ OnEdge(path[1], src, SourceEdgeOf(arrows[i]))
         /\ OnEdge(path[4], dst, DestEdgeOf(arrows[i]))

\* C13 witness: two connectors share the source edge of one of them, which
\* starts on that edge, off its middle, and ends on another edge of another
\* side
C13_Witness ==
  \E i \in 1..Len(arrows) :
    /\ ~Dangling(arrows[i])
    /\ LET path == PathOf(arrows[i])
           src  == sides[FindSide(sides, arrows[i].sourceId)]
           dst  == sides[FindSide(sides, arrows[i].destinationId)]
       IN /\ src.id # dst.id
          /\ SourceEdgeOf(arrows[i]) # DestEdgeOf(arrows[i])
          /\ Len(EdgeArrows(src, SourceEdgeOf(arrows[i]))) >= 2
          /\ OnEdge(path[1], src, SourceEdgeOf(arrows[i]))
          /\ OnEdge(path[4], dst, DestEdgeOf(arrows[i]))
          /\ path[1] # getArrowEdgePoint(src, SourceEdgeOf(arrows[i]), 0, 1)

PathReturned == call.fn = "calculateAdvancedArrowPath" /\ call.returned

PathUnderWay == call.fn = "calculateAdvancedArrowPath" /\ ~call.returned

\* the calls under way hold calculateAdvancedArrowPath once, at the bottom,
\* and at most one call above it
NoReentry ==
  /\ Len(call.stack) <= 2
  /\ \A k \in 2..Len(call.stack) : call.stack[k].fn # "calculateAdvancedArrowPath"
  /\ PathUnderWay =>
       /\ Len(call.stack) >= 1
       /\ call.stack[1] = Frame("calculateAdvancedArrowPath", call.arrow)

\* C15: the computation of a connector's path never calls the path
\* computation again, of this or of another connector (the calls under way
\* never hold calculateAdvancedArrowPath twice), and every computation
\* started returns, for connectors to missing sides, bidirectional pairs and
\* connectors sharing edges alike; what it returns is the connector's path.
C15_PathComputationReturns ==
  /\ []NoReentry
  /\ [](PathReturned => call.path = PathOf(call.arrow))
  /\ (PathUnderWay ~> PathReturned)

\* C15 witness: the computation for a connector of a bidirectional pair,
\* whose edges the other connector of the pair shares, has visited every
\* connector twice and returned a path
C15_Witness ==
  /\ PathReturned
  /\ call.pc = "done"
  /\ Len(call.path) = 4
  /\ call.visited = Len(arrows)
  /\ Len(call.list) >= 2
  /\ \E i \in 1..Len(arrows) :
       /\ arrows[i].sourceId = call.arrow.destinationId
       /\ arrows[i].destinationId = call.arrow.sourceId
       /\ arrows[i].sourceId # arrows[i].destinationId

\* the rectangle behind the label of a connector as drawn, in units of 1/32
LabelBox(arrow) ==
  LET rect == labelRectOf(labelPosOf(ScreenPathOf(arrow)), canvasState)
  IN [left   |-> Units(rect.x), top |-> Units(rect.y),
      right  |-> Units(Add(rect.x, rect.width)),
      bottom |-> Units(Add(rect.y, rect.height))]

\* the point of an orthogonal path at distance d from its first point,
\* looked for from the n-th point on (units of 1/32)
RECURSIVE PointAlong(_, _, _)
PointAlong(path, n, d) ==
  IF n >= Len(path) THEN [x |-> Units(path[n].x), y |-> Units(path[n].y)]
  ELSE LET seg == SegmentUnits(path[n], path[n + 1])
           dx  == Units(path[n + 1].x) - Units(path[n].x)
           dy  == Units(path[n + 1].y) - Units(path[n].y)
       IN IF d <= seg /\ seg > 0
          THEN [x |-> Units(path[n].x) + (dx * d) \div seg,
                y |-> Units(path[n].y) + (dy * d) \div seg]
          ELSE PointAlong(path, n + 1, d - seg)

\* the rectangle of a label put at the middle (50%) of the path's length,
\* the candidate evaluated first
MidpointBox(arrow) ==
  LET path == ScreenPathOf(arrow)
      mid  == PointAlong(path, 1, LengthUpTo(path, Len(path)) \div 2)
      half == Units(Mul(Num(24), canvasState.zoom)) \div 2
  IN [left  |-> mid.x - half, top    |-> mid.y - half,
      right |-> mid.x + half, bottom |-> mid.y + half]

\* the rectangle of a side as drawn, in units of 1/32
ScreenBox(side) ==
  LET corner == canvasToScreen(Point(side.position.x, side.position.y),
                               canvasState)
  IN [left   |-> Units(corner.x), top |-> Units(corner.y),
      right  |-> Units(Add(corner.x, Mul(Num(EdgeLength(side, "top")),
                                         canvasState.zoom))),
      bottom |-> Units(Add(corner.y, Mul(Num(EdgeLength(side, "left")),
                                         canvasState.zoom)))]

BoxesOverlap(a, b) ==
  a.left < b.right /\ b.left < a.right /\ a.top < b.bottom /\ b.top < a.bottom

\* a segment of an orthogonal path touches a rectangle
SegmentMeetsBox(p, q, box) ==
  /\ Least(Units(p.x), Units(q.x)) <= box.right
  /\ Greatest(Units(p.x), Units(q.x)) >= box.left
  /\ Least(Units(p.y), Units(q.y)) <= box.bottom
  /\ Greatest(Units(p.y), Units(q.y)) >= box.top

PathMeetsBox(path, box) ==
  \E n \in 1..(Len(path) - 1) : SegmentMeetsBox(path[n], path[n + 1], box)

\* collision score of a label rectangle of a connector: 100 when it lies on
\* a side, 10 when it lies on another connector
CollisionScore(arrow, box) ==
  (IF \E k \in 1..Len(sides) : BoxesOverlap(box, ScreenBox(sides[k]))
   THEN 100 ELSE 0)
  + (IF \E j \in 1..Len(arrows) :
          arrows[j].id # arrow.id /\ PathMeetsBox(ScreenPathOf(arrows[j]), box)
     THEN 10 ELSE 0)

\* C16: for every connector with a non-empty path a label position is
\* returned, and it is the lowest-scoring of the candidates evaluated (a
\* label on a side costs 100, on another connector 10): it scores no more
\* than the middle of the path, the candidate evaluated first.
C16_LabelLowestScoring ==
  \A i \in 1..Len(arrows) :
    LET path == ScreenPathOf(arrows[i])
    IN path # <<>> =>
         /\ labelPosOf(path) \in {path[n] : n \in 1..Len(path)}
         /\ CollisionScore(arrows[i], LabelBox(arrows[i]))
              <= CollisionScore(arrows[i], MidpointBox(arrows[i]))

\* C17: after any sequence of side creations, arrow creations, side
\* deletions and arrow deletions on a flashcard that starts consistent (here
\* empty), the sourceId and the destinationId of every arrow are ids of sides
\* of the flashcard.
C17_ArrowsReferenceSides ==
  \A i \in 1..Len(arrows) :
    arrows[i].sourceId \in SideIds /\ arrows[i].destinationId \in SideIds

PairExists(sourceId, destinationId) ==
  \E i \in 1..Len(arrows) :
    arrows[i].sourceId = sourceId /\ arrows[i].destinationId = destinationId

\* the id of the arrow of a pair that has one
ArrowOfPair(sourceId, destinationId) ==
  (CHOOSE arrow \in {arrows[i] : i \in 1..Len(arrows)} :
     arrow.sourceId = sourceId /\ arrow.destinationId = destinationId).id

AtMostOnePerPair ==
  \A i, j \in 1..Len(arrows) :
    (arrows[i].sourceId = arrows[j].sourceId
       /\ arrows[i].destinationId = arrows[j].destinationId) => i = j

\* C18: on a flashcard that starts without duplicates the flashcard holds at
\* most one arrow per ordered (sourceId, destinationId) pair; a
\* handleArrowCreate call for a pair that has an arrow adds none, selects
\* that arrow and sets it for editing; a call for a pair that has none adds
\* the arrow, also when the reverse pair has one.
C18_OneArrowPerOrderedPair ==
  /\ []AtMostOnePerPair
  /\ [][(sides' = sides /\ newArrowForEditing' # 0) =>
        \A sourceId, destinationId \in SideIds \cup {canvasState.arrowSourceId} :
          handleArrowCreate(sourceId, destinationId) =>
            IF PairExists(sourceId, destinationId)
            THEN /\ arrows' = arrows
                 /\ canvasState'.selectedArrowIds
                      = <<ArrowOfPair(sourceId, destinationId)>>
                 /\ newArrowForEditing' = ArrowOfPair(sourceId, destinationId)
            ELSE /\ Len(arrows') = Len(arrows) + 1
                 /\ SubSeq(arrows', 1, Len(arrows)) = arrows
                 /\ arrows'[Len(arrows')].sourceId = sourceId
                 /\ arrows'[Len(arrows')].destinationId = destinationId
                 /\ newArrowForEditing' = arrows'[Len(arrows')].id]_vars

\* C18 witness: an arrow and, made after it, the arrow of the reverse pair;
\* after that a request for the first pair has selected the first arrow and
\* set it for editing
C18_Witness ==
  \E i, j \in 1..Len(arrows) :
    /\ i < j
    /\ arrows[i].sourceId = arrows[j].destinationId
    /\ arrows[i].destinationId = arrows[j].sourceId
    /\ newArrowForEditing = arrows[i].id
    /\ canvasState.selectedArrowIds = <<arrows[i].id>>
    /\ AtMostOnePerPair

\* C19: no arrow from a side to itself is created by clicks with the
\* add-arrow tool: the flashcard holds none, and while an arrow is being
\* created a click on the source side leaves the arrows as they are.
C19_NoArrowToItself ==
  /\ [](\A i \in 1..Len(arrows) : arrows[i].sourceId # arrows[i].destinationId)
  /\ [][arrows' = arrows \/ \A canvasPos \in ClickPoints :
          (/\ selectedTool = "add-arrow"
           /\ canvasState.isCreatingArrow
           /\ findSideAtPosition(canvasPos, sides) # 0
           /\ sides[findSideAtPosition(canvasPos, sides)].id
                = canvasState.arrowSourceId
           /\ onClick(canvasPos, findSideAtPosition(canvasPos, sides), 0, FALSE))
            => arrows' = arrows]_vars

\* C19 witness: an arrow is being created from a side that can be clicked,
\* another side is there to end it on, and an arrow has been created
C19_Witness ==
  /\ selectedTool = "add-arrow"
  /\ canvasState.isCreatingArrow
  /\ \E canvasPos \in ClickPoints :
       /\ findSideAtPosition(canvasPos, sides) # 0
       /\ sides[findSideAtPosition(canvasPos, sides)].id
            = canvasState.arrowSourceId
  /\ Len(sides) >= 2
  /\ arrows # <<>>

\* C20: after every deletion the selection holds no id of a side or of an
\* arrow the deletion removed, arrows removed with their side included.
C20_SelectionHoldsNoDeletedId ==
  [][/\ \A id \in SideIds :
          id \notin {sides'[i].id : i \in 1..Len(sides')}
            => ~Includes(canvasState'.selectedSideIds, id)
     /\ \A id \in ArrowIds :
          id \notin {arrows'[i].id : i \in 1..Len(arrows')}
            => ~Includes(canvasState'.selectedArrowIds, id)]_vars

\* C30: whenever an arrow is being created (canvasState.isCreatingArrow),
\* canvasState.arrowSourceId is the id of a side of the flashcard.
C30_ArrowSourceIsASide ==
  canvasState.isCreatingArrow => canvasState.arrowSourceId \in SideIds

\* C21: the add-arrow workflow.  With the add-arrow tool, a click on a side
\* while no arrow is being created starts the creation with that side as the
\* source; a following click on a different side ends the creation and adds
\* exactly one arrow from the source to that side, or selects the arrow the
\* pair already has; a click on the empty canvas or selecting the add-arrow
\* tool again ends the creation and adds no arrow; no other step adds an
\* arrow.
C21_AddArrowWorkflow ==
  [][/\ (selectedTool = "add-arrow" /\ sides' = sides) =>
        \A canvasPos \in ClickPoints :
          onClick(canvasPos, findSideAtPosition(canvasPos, sides), 0, FALSE)
            => IF findSideAtPosition(canvasPos, sides) = 0
               THEN ~canvasState'.isCreatingArrow /\ arrows' = arrows
               ELSE IF ~canvasState.isCreatingArrow
               THEN /\ canvasState'.isCreatingArrow
                    /\ canvasState'.arrowSourceId
                         = sides[findSideAtPosition(canvasPos, sides)].id
                    /\ arrows' = arrows
               ELSE IF sides[findSideAtPosition(canvasPos, sides)].id
                         # canvasState.arrowSourceId
               THEN /\ ~canvasState'.isCreatingArrow
                    /\ IF PairExists(canvasState.arrowSourceId,
                            sides[findSideAtPosition(canvasPos, sides)].id)
                       THEN /\ arrows' = arrows
                            /\ canvasState'.selectedArrowIds
                                 = <<ArrowOfPair(canvasState.arrowSourceId,
                                       sides[findSideAtPosition(canvasPos, sides)].id)>>
                       ELSE /\ Len(arrows') = Len(arrows) + 1
                            /\ SubSeq(arrows', 1, Len(arrows)) = arrows
                            /\ arrows'[Len(arrows')].sourceId
                                 = canvasState.arrowSourceId
                            /\ arrows'[Len(arrows')].destinationId
                                 = sides[findSideAtPosition(canvasPos, sides)].id
               ELSE arrows' = arrows /\ canvasState' = canvasState
     /\ (selectedTool' = "add-arrow" /\ handleToolSelect("add-arrow"))
          => ~canvasState'.isCreatingArrow /\ arrows' = arrows
     /\ (/\ arrows' # arrows
         /\ \E i \in 1..Len(arrows') :
              arrows'[i].id \notin {arrows[k].id : k \in 1..Len(arrows)})
          => /\ selectedTool = "add-arrow"
             /\ canvasState.isCreatingArrow
             /\ \E canvasPos \in ClickPoints :
                  /\ findSideAtPosition(canvasPos, sides) # 0
                  /\ sides[findSideAtPosition(canvasPos, sides)].id
                       # canvasState.arrowSourceId
                  /\ arrows'[Len(arrows')].destinationId
                       = sides[findSideAtPosition(canvasPos, sides)].id]_vars

\* C21 witness: the workflow has run to its end: with the add-arrow tool an
\* arrow between two sides of the flashcard was made and is set for editing,
\* and no creation is open
C21_Witness ==
  /\ selectedTool = "add-arrow"
  /\ ~canvasState.isCreatingArrow
  /\ arrows # <<>>
  /\ newArrowForEditing = arrows[Len(arrows)].id
  /\ arrows[Len(arrows)].sourceId \in SideIds
  /\ arrows[Len(arrows)].destinationId \in SideIds

OppositeEdge(edge) ==
  CASE edge = "right" -> "left" [] edge = "left" -> "right"
    [] edge = "top" -> "bottom" [] edge = "bottom" -> "top"

\* C26: for two sides with distinct centres the edge a connector enters its
\* destination on, determineEdgeFromVector(destination, source), is the
\* opposite of the edge it leaves its source on,
\* determineEdgeFromVector(source, destination).
C26_EntersOppositeEdge ==
  (/\ EdgeReturned
   /\ \/ CenterX2(call.fromSide) # CenterX2(call.toSide)
      \/ CenterY2(call.fromSide) # CenterY2(call.toSide))
  => determineEdgeFromVector(call.toSide, call.fromSide)
       = OppositeEdge(call.edge)

RecentPathsOf(files) == {files[i].path : i \in 1..Len(files)}

\* C27: the stored recent-files list has at most 10 entries and no two
\* entries with the same path; when addToRecentFiles stores, the path it was
\* called with is first, and if the list it read held the path already, the
\* stored list is as long as the list read and the other entries keep their
\* order.
C27_RecentFilesList ==
  /\ [](/\ Len(recentFiles) <= 10
        /\ \A i, j \in 1..Len(recentFiles) :
             recentFiles[i].path = recentFiles[j].path => i = j)
  /\ [][\A c \in inFlight : recentFilesStored(c) =>
          /\ recentFiles'[1].path = c.filePath
          /\ c.filePath \in RecentPathsOf(c.recentFiles) =>
               /\ Len(recentFiles') = Len(c.recentFiles)
               /\ Tail(recentFiles') = WithoutPath(c.recentFiles, c.filePath)
          /\ c.filePath \notin RecentPathsOf(c.recentFiles) =>
               \A i \in 2..Len(recentFiles') :
                 recentFiles'[i] = c.recentFiles[i - 1]]_vars

\* C27 witness: a full list to which a path it held further back was added
\* again and, before that, a path it did not hold
C27_Witness ==
  /\ Len(recentFiles) = 10
  /\ inFlight = {}
  /\ recentFiles[1].path = 5
  /\ 11 \in RecentPathsOf(recentFiles)
  /\ 9 \notin RecentPathsOf(recentFiles)

\* C25: openFlashcardSet and openFlashcardSetByPath return a set only when
\* the file holds JSON that passes validateFlashcardSet; for a file that
\* does not parse or does not pass, the call throws and leaves the
\* recent-files list as it is; a cancelled dialog makes openFlashcardSet
\* return null and leaves the list as it is.
C25_OpenReturnsValidatedSet ==
  /\ [](returned.value = "set" =>
          /\ disk[returned.filePath].kind = "json"
          /\ returned.set = disk[returned.filePath].data
          /\ validateFlashcardSet(returned.set))
  /\ [][\A c \in {d \in inFlight : \A e \in inFlight' : e.call # d.call} :
          IF c.phase = "dialog"
          THEN returned' = NullResult /\ recentFiles' = recentFiles
          ELSE IF \/ disk[c.filePath].kind # "json"
                  \/ ~validateFlashcardSet(disk[c.filePath].data)
          THEN returned'.value = "error" /\ recentFiles' = recentFiles
          ELSE /\ returned' = OpenedSet(disk[c.filePath].data, c.filePath)
               /\ recentFiles'[1].path = c.filePath]_vars

\* C25 witness: a set was returned and is first in the recent files, after
\* which a call for a JSON file that is no set has thrown
C25_Witness ==
  /\ returned = OpenError("Invalid flashcard set file format")
  /\ recentFiles # <<>> /\ recentFiles[1].path = 1
  /\ Len(recentFiles) = 1

\* C28: at most one file write started from MainLayout (manual save,
\* save-as, auto-save) is in flight at any time.
C28_OneWriteInFlight ==
  Cardinality({c \in inFlight : c.phase = "write"}) <= 1

\* C29: an auto-save that the timer starts writes the set that is current
\* when the timer fires, to the path that is current then.
C29_AutoSaveWritesCurrent ==
  [][\A c \in inFlight' \ inFlight :
       c.fn = "handleAutoSave" =>
         c.set = currentSet /\ c.filePath = currentFilePath]_vars

\* C22: once the change-tracking effect has run, hasUnsavedChanges is false
\* only if the current set and flashcard, serialized, equal lastSavedState.
C22_UnsavedFlagTracksState ==
  (~effectDue /\ currentSet # NoSet /\ ~hasUnsavedChanges)
    => lastSavedState = currentSet

\* C24: when the save dialog of a manual save or save-as is cancelled or its
\* write fails, saveError is set, isSaving is false again and
\* currentFilePath, lastSavedState and hasUnsavedChanges are as before; when
\* the write of an auto-save fails, saveError, lastSavedState and
\* hasUnsavedChanges are as before.
C24_FailedSaveKeepsState ==
  [][\A c \in inFlight :
       (saveDialogClosed(c, 0) \/ fileWritten(c, FALSE)) =>
         IF c.fn = "handleAutoSave"
         THEN /\ saveError' = saveError
              /\ lastSavedState' = lastSavedState
              /\ hasUnsavedChanges' = hasUnsavedChanges
         ELSE /\ saveError' # ""
              /\ isSaving' = FALSE
              /\ currentFilePath' = currentFilePath
              /\ lastSavedState' = lastSavedState
              /\ hasUnsavedChanges' = hasUnsavedChanges]_vars

\* C24 witness: the write of a manual save of an edited set has failed
C24_Witness ==
  /\ saveError = "write failed"
  /\ ~isSaving
  /\ inFlight = {}
  /\ hasUnsavedChanges
  /\ currentFilePath # 0
  /\ lastSavedState # currentSet

\* the set has a file path and differs from the last saved state, the
\* effect has run and no save is in progress
AutoSaveOwed ==
  /\ ~effectDue
  /\ currentSet # NoSet /\ currentFilePath # 0
  /\ lastSavedState # NoSet /\ currentSet # lastSavedState
  /\ ~isSaving /\ inFlight = {}

\* C23: while the current set has a file path and differs from the last
\* saved state, an auto-save is pending, and when its 30 seconds are over
\* with no further change it is attempted: a write of the set is started.
C23_AutoSaveAttempted ==
  /\ [](AutoSaveOwed => autoSaveTimeoutRef.live)
  /\ [][(AutoSaveOwed /\ autoSaveTimerFired) =>
          \E c \in inFlight' : c.fn = "handleAutoSave" /\ c.set = currentSet]_vars

\* the orders a list of n connectors can be passed in
ListOrders(n) ==
  {p \in [1..n -> 1..n] : \A j, k \in 1..n : p[j] = p[k] => j = k}

Permuted(list, p) == [j \in 1..Len(list) |-> list[p[j]]]

\* C31: the connection point of a connector on an edge of a side is the same
\* for every order of the arrow list passed as allArrows.
C31_PointIndependentOfListOrder ==
  \A i \in 1..Len(sides), edge \in Edges, n \in 1..Len(arrows) :
    usesEdge(arrows[n], sides[i], edge, sides) =>
      \A p \in ListOrders(Len(arrows)) :
        getSideEdgeConnectionPoint(sides[i], edge, arrows[n],
                                   Permuted(arrows, p), sides)
          = ConnectionPoint(sides[i], edge, arrows[n])

\* the other end of connector a lies before that of connector b, by more
\* than the 5px tolerance, in the coordinate that runs along the edge:
\* further left for a top or bottom edge, higher for a left or right edge
OtherEndBefore(a, b, side, edge) ==
  IF edge \in {"top", "bottom"}
  THEN CenterX2(OtherSide(b, side)) - CenterX2(OtherSide(a, side)) > 10
  ELSE CenterY2(OtherSide(b, side)) - CenterY2(OtherSide(a, side)) > 10

\* C32: on every edge of a side, of two connectors whose other ends differ
\* by more than 5 along the edge's direction, the one whose other end is
\* further left (top and bottom edges) or higher (left and right edges)
\* attaches further left or higher.
C32_PointsOrderedAsOtherEnds ==
  \A i \in 1..Len(sides), edge \in Edges :
    LET side == sides[i]
        list == EdgeArrows(side, edge)
    IN \A j \in 1..Len(list), k \in 1..Len(list) :
         OtherEndBefore(list[j], list[k], side, edge) =>
           OffsetUnits(side, edge, ConnectionPoint(side, edge, list[j]))
             < OffsetUnits(side, edge, ConnectionPoint(side, edge, list[k]))

\* ids that no side of the flashcard has
AbsentIds == {0, 999} \ SideIds

\* C33: handleSideMove(sideId, p) gives the sides with that id the position p
\* and changes nothing else: every other field of those sides, every other
\* side, the number and order of the sides, the arrows and the canvas
\* selection stay as they were; with an id that no side has, the sides are
\* the same list.
C33_MoveChangesOnePosition ==
  /\ [](\A sideId \in AbsentIds, p \in Positions :
          updatedSides(sides, sideId, p) = sides)
  /\ [][\A sideId \in SideIds, p \in Positions :
          handleSideMove(sideId, p) =>
            /\ Len(sides') = Len(sides)
            /\ \A i \in 1..Len(sides) :
                 IF sides[i].id = sideId
                 THEN sides'[i] = [sides[i] EXCEPT !.position = p]
                 ELSE sides'[i] = sides[i]
            /\ arrows' = arrows
            /\ canvasState' = canvasState]_vars

\* C33 witness: two sides are selected and one side of the opened file has
\* been dragged to another position while the others are where the file
\* has them
C33_Witness ==
  /\ Len(canvasState.selectedSideIds) = 2
  /\ \E file \in Files :
       /\ arrows = file.arrows
       /\ Len(sides) = Len(file.sides)
       /\ \E i \in 1..Len(sides) :
            /\ sides[i].position # file.sides[i].position
            /\ sides[i] = [file.sides[i] EXCEPT !.position = sides[i].position]
            /\ Includes(canvasState.selectedSideIds, sides[i].id)
            /\ \A j \in 1..Len(sides) : j # i => sides[j] = file.sides[j]

\* C35: from zoom 1, after any sequence of wheel turns and of the toolbar's
\* zoom in, zoom out and zoom reset, the zoom of the canvas state is at least
\* 0.1 and at most 5.
C35_ZoomWithinLimits ==
  /\ Ge(canvasState.zoom, Div(Num(1), Num(10)))
  /\ Le(canvasState.zoom, Num(5))

\* C35 witness: zooming out was stopped at the lower limit
C35_Witness == canvasState.zoom = Div(Num(1), Num(10))

\* a point whose coordinates are integer multiples of gridSize
OnGrid(point, gridSize) ==
  /\ point.x.e >= 0 /\ IntegerOf(point.x) % gridSize = 0
  /\ point.y.e >= 0 /\ IntegerOf(point.y) % gridSize = 0

\* a snapped position is on the grid and is snapped to itself
SnapsWell(point, gridSize) ==
  /\ OnGrid(point, gridSize)
  /\ snapToGrid(point, gridSize) = point

\* C34: with grid snapping on and the grid size fixed, every side added with
\* the add-side tool or dragged is at integer multiples of gridSize in x and
\* in y, and snapToGrid returns a snapped position unchanged: wherever the
\* mouse is, the position a click or the drag under way would give a side is
\* on the grid and snaps to itself.
C34_SidesOnGrid ==
  /\ \A i \in 1..Len(sides) :
       /\ sides[i].position.x % canvasState.gridSize = 0
       /\ sides[i].position.y % canvasState.gridSize = 0
       /\ SnapsWell(Point(sides[i].position.x, sides[i].position.y),
                    canvasState.gridSize)
  /\ \A mouse \in SnapPoints :
       /\ SnapsWell(snappedPos(centeredPos(getCanvasPosition(mouse, canvasState)),
                               canvasState), canvasState.gridSize)
       /\ isDragging =>
            SnapsWell(draggedTo(getCanvasPosition(mouse, canvasState),
                                canvasState), canvasState.gridSize)

\* C34 witness: the canvas is zoomed; a side sits left of and above the
\* origin where a click put it, and the side being dragged has been moved
\* to a place no click puts a side at
C34_Witness ==
  /\ canvasState.zoom # Num(1)
  /\ isDragging
  /\ \E i \in 1..Len(sides) : sides[i].position.x < 0 /\ sides[i].position.y < 0
  /\ \E i \in 1..Len(sides) :
       /\ sides[i].id = dragSideId
       /\ \A mouse \in SnapPoints :
            sides[i].position #
              PositionOf(snappedPos(centeredPos(getCanvasPosition(mouse,
                                                                  canvasState)),
                                    canvasState))

=============================================================================
